---------------------------- MODULE Spec2Model ----------------------------
(***************************************************************************)
(* Pomodoro stopwatch firmware: the mode state machine (SETTING, RUNNING,  *)
(* PAUSED, TIMEOUT, SLEEPING), its entry functions, the input handlers and *)
(* the main loop, over a free-running wrapping millisecond counter.        *)
(*                                                                         *)
(* One pass of loop() is split at the points where the code reads          *)
(* millis(): the sample of `now`, handleEncoderInput, handleButtonInput    *)
(* and updateStateMachine.  enterTimeout blocks inside updateStateMachine; *)
(* its polling waits and the light sleep are steps of their own.           *)
(*                                                                         *)
(* Spec is the firmware as loop() runs it.  SpecSession adds a call of     *)
(* startRunFromSelection from the selection screen, which no pass of       *)
(* loop() makes, and SpecOps adds calls of resumeRun and enterPaused in    *)
(* whatever mode the program is in.  SpecLive is Spec with the blink of    *)
(* enterTimeout running on.                                                *)
(*                                                                         *)
(* SpecUtil applies the functions of utils to sessions on both sides of    *)
(* the wrap of the counter.  SpecTween runs one entry of the animation     *)
(* list at a time through updateAll, SpecTweenLive with the timestamp      *)
(* moving on for ever, and SpecPool makes every call on the list in any    *)
(* order.  SpecFill fills the list with entries for more floats than it    *)
(* has items, and SpecPoll gives two lists the same start and polls them   *)
(* at readings of their own.  SpecUse makes the calls of the firmware on   *)
(* the list, for the three floats it animates.                             *)
(*                                                                         *)
(* SpecWedge draws the wedge of the dial for one value after another       *)
(* through the dial cache, and SpecRender calls renderAll for one view of  *)
(* the state after another.  SpecTurn is Spec with passes inside the       *)
(* encoder's throttle window and a wake just before the counter wraps;     *)
(* SpecIdle is the loop running on for ever once the inputs are over.      *)
(* SpecTint draws the wedge again and again over a blank screen with the   *)
(* tint of pause coming and going, SpecZero calls the drawing functions    *)
(* with a total of zero, and SpecDrain runs the drain of the encoder's     *)
(* counter line by line with the interrupt arriving in between.            *)
(***************************************************************************)
EXTENDS Integers, Sequences, FiniteSets, TLC

VARIABLES
  st,        \* gState: the PomodoroState record
  anim,      \* the entry of gDisplay.animations whose target is &st.blinkLevel
  steps,     \* gEncoder.steps, written by the encoder interrupt
  clock,     \* what millis() returns
  now,       \* loop()'s local `now`
  pc,        \* position of the main thread
  tmoI,      \* enterTimeout: loop index i
  tmoPhase,  \* enterTimeout: 0 = first wait of the cycle, 1 = second wait
  tmoStart,  \* waitForEncoderDuringTimeout: local `start`
  drew,      \* the last handler called renderAll
  last,      \* history: the last step of the main thread
  prev,      \* history: gState before that step
  ranMs,     \* history: time spent in RUNNING by the session that
             \* startRunFromSelection began, -1 when there is none
  accepted,  \* history: whether handleEncoderInput has accepted a selection
             \* change (any), and whether the last one it accepted came less
             \* than ENCODER_THROTTLE_MS after the one before (early)
  calls,     \* direct calls of startRunFromSelection so far
  ops,       \* direct calls of resumeRun and enterPaused so far
  faults,    \* failed calls of esp_light_sleep_start so far
  loops,     \* passes of loop() started
  presses,   \* button presses so far
  turns,     \* encoder detents so far
  drift,     \* milliseconds that passed inside passes of loop() so far
             \* (presses, detents, such milliseconds, the direct calls
             \* counted by ops and the faults are the events that MaxEvents
             \* bounds)
  ret,       \* the last call of a function of utils and what it returned
  items,     \* a ValueAnimationList on its own: its items
  vals,      \* the floats its entries point to, by name
  wrote,     \* history: what the last call on the list wrote to the floats
  stamp,     \* the timestamp of the last call on the list
  starts,    \* calls of start and startTo on the list that MaxStarts bounds
  twin,      \* a second ValueAnimationList with floats of its own, given
             \* the same calls of start and polled at readings of its own
  dial,      \* gDisplay.dial: the DisplayDialCache
  ring,      \* the screen: the colour of each sector of the dial
  probe      \* history: the last call that drew, the seconds, total, pause
             \* flag and background it was given, the validity flags at
             \* the moment the screen was cleared (seen), the cache fields
             \* a draw decision read while their validity flag was false
             \* (stale), and what was done to the hand and to the tip

vars == <<st, anim, steps, clock, now, pc, tmoI, tmoPhase, tmoStart, drew,
          last, prev, ranMs, accepted, calls, ops, faults, loops, presses, turns,
          drift, ret, items, vals, wrote, stamp, starts, twin, dial, ring, probe>>

\* the variables of the firmware's loop, and the others
fw == <<st, anim, steps, clock, now, pc, tmoI, tmoPhase, tmoStart, drew,
        last, prev, ranMs, accepted, calls, ops, faults, loops, presses, turns,
        drift>>
list == <<items, vals, wrote, stamp, starts, twin>>
disp == <<dial, ring, probe>>
lab == <<ret, items, vals, wrote, stamp, starts, twin, dial, ring, probe>>

-----------------------------------------------------------------------------
(* Bounds of the exploration *)

MaxLoops == 4
MaxEvents == 2
MaxCalls == 1
MaxStarts == 3
BootMs == 60

(* The counter is uint32_t in the firmware.  TLC's integers are 32-bit     *)
(* signed, so the counter is modelled with 30 bits: every program constant *)
(* fits, and all arithmetic on timestamps is modulo UINT_MOD.              *)
UINT_MOD == 1024 * 1024 * 1024
UINT_MAX == UINT_MOD - 1

Sub32(a, b) == (a - b + UINT_MOD) % UINT_MOD
Add32(a, b) == (a + b) % UINT_MOD

-----------------------------------------------------------------------------
(* Program constants (pomodoro.h) *)

RUN_REPAINT_MS == 1000
PAUSE_BLINK_WHITE_MS == 400
PAUSE_BLINK_BLACK_MS == 600
PAUSE_BLINK_FRAME_MS == 40
PAUSE_SLEEP_DELAY_MS == 180000
PAUSE_IDLE_DELAY_MS == PAUSE_SLEEP_DELAY_MS
ENCODER_THROTTLE_MS == 1000
SETTING_ANIM_DURATION_MS == 300
CENTER_DISPLAY_MS == 2000
MAX_VALUE_ANIMATIONS == 6
TIMEOUT_BLINK_COUNT == 5
TIMEOUT_WAIT_MS == 250
OPTION_COUNT == 4
OPTIONS == <<15, 30, 60, 0>>

Modes == {"SETTING", "RUNNING", "PAUSED", "TIMEOUT", "SLEEPING"}

-----------------------------------------------------------------------------
(* utils: currentMinutes, computeElapsedMs, computeRemainingMs *)

currentMinutes(s) == OPTIONS[(s.optionIndex % OPTION_COUNT) + 1]

computeElapsedMs(s, nw) ==
  LET start == s.runStartMs
  IN  IF nw >= start THEN nw - start
      ELSE Add32(Add32(Sub32(UINT_MAX, start), 1), nw)

\* The revision of utils whose computeElapsedMs subtracts directly
computeElapsedMsSub(s, nw) == Sub32(nw, s.runStartMs)

\* An elapsedSince that forgets the step from UINT32_MAX to 0
elapsedSinceNoCarry(since, nw) ==
  IF nw >= since THEN nw - since
  ELSE Add32(Sub32(UINT_MAX, since), nw)

elapsedSince(since, nw) ==
  IF nw >= since THEN nw - since
  ELSE Add32(Add32(Sub32(UINT_MAX, since), 1), nw)

\* A computeRemainingMs that subtracts without comparing first
computeRemainingMsUnguarded(s, nw) ==
  IF s.runDurationMs = 0 THEN 0
  ELSE Sub32(s.runDurationMs, computeElapsedMs(s, nw))

computeRemainingMs(s, nw) ==
  IF s.runDurationMs = 0 THEN 0
  ELSE LET elapsed == computeElapsedMs(s, nw)
       IN  IF elapsed >= s.runDurationMs THEN 0 ELSE s.runDurationMs - elapsed

-----------------------------------------------------------------------------
(* easing: cubicBezierEase in fixed point, LEVEL_ONE standing for 1.0f *)

LEVEL_ONE == 10 * 100

clampf(v, a, b) == IF v < a THEN a ELSE IF v > b THEN b ELSE v
fmul(a, b) == (a * b) \div LEVEL_ONE
fabs(v) == IF v < 0 THEN 0 - v ELSE v
\* A lerpf that starts from the wrong end
lerpfFromEnd(a, b, t) == b + fmul(b - a, t)

lerpf(a, b, t) == a + fmul(b - a, t)

cubicBezierValue(t, p1, p2) ==
  LET u == LEVEL_ONE - t
  IN  3 * fmul(fmul(fmul(u, u), t), p1)
      + 3 * fmul(fmul(fmul(u, t), t), p2)
      + fmul(fmul(t, t), t)

cubicBezierDerivative(t, p1, p2) ==
  LET u == LEVEL_ONE - t
  IN  3 * fmul(fmul(u, u), p1)
      + 6 * fmul(fmul(u, t), p2 - p1)
      + 3 * fmul(fmul(t, t), LEVEL_ONE - p2)

RECURSIVE bezierNewton(_, _, _, _, _)
bezierNewton(u, x, x1, x2, i) ==
  IF i = 0 THEN u
  ELSE LET current == cubicBezierValue(u, x1, x2) - x
           deriv == cubicBezierDerivative(u, x1, x2)
       IN  IF current = 0 \/ deriv = 0 THEN u
           ELSE bezierNewton(clampf(u - ((current * LEVEL_ONE) \div deriv), 0, LEVEL_ONE),
                             x, x1, x2, i - 1)

RECURSIVE bezierBisect(_, _, _, _, _, _, _)
bezierBisect(lo, hi, u, x, x1, x2, i) ==
  IF i = 0 THEN u
  ELSE LET mid == (lo + hi) \div 2
           midX == cubicBezierValue(mid, x1, x2)
       IN  IF midX < x THEN bezierBisect(mid, hi, mid, x, x1, x2, i - 1)
           ELSE bezierBisect(lo, mid, mid, x, x1, x2, i - 1)

cubicBezierEase(x0, x1, y1, x2, y2) ==
  LET x == clampf(x0, 0, LEVEL_ONE)
      u1 == bezierNewton(x, x, x1, x2, 5)
      solvedX == cubicBezierValue(u1, x1, x2)
      u == IF fabs(solvedX - x) > 1 THEN bezierBisect(0, LEVEL_ONE, u1, x, x1, x2, 6)
           ELSE u1
  IN  clampf(cubicBezierValue(u, y1, y2), 0, LEVEL_ONE)

easeLinear(t) == clampf(t, 0, LEVEL_ONE)
easeIn(t) == cubicBezierEase(t, 420, 0, LEVEL_ONE, LEVEL_ONE)
easeOut(t) == cubicBezierEase(t, 0, 0, 580, LEVEL_ONE)
easeInOut(t) == cubicBezierEase(t, 420, 0, 580, LEVEL_ONE)

\* a call through an EaseFn
EaseFns == {"easeLinear", "easeIn", "easeOut", "easeInOut"}
ease(fn, t) ==
  CASE fn = "easeLinear" -> easeLinear(t)
    [] fn = "easeIn" -> easeIn(t)
    [] fn = "easeOut" -> easeOut(t)
    [] fn = "easeInOut" -> easeInOut(t)

-----------------------------------------------------------------------------
(* ValueAnimation / ValueAnimationList, for the one target the state       *)
(* machine animates itself: &st.blinkLevel                                 *)

NoAnim == [active |-> FALSE, from |-> 0, to |-> 0, start |-> 0, duration |-> 0]

(* A world is what the handlers read and write: gState, the pool entry and *)
(* whether renderAll was called.                                           *)
World(s, a, d) == [st |-> s, anim |-> a, drew |-> d]

\* ValueAnimation::begin through ValueAnimationList::start
animStart(w, fromValue, toValue, startMs, durationMs) ==
  LET active == (durationMs > 0) /\ (fabs(toValue - fromValue) > 0)
  IN  IF ~active
      THEN [w EXCEPT !.st.blinkLevel = toValue, !.anim = NoAnim]
      ELSE [w EXCEPT !.st.blinkLevel = fromValue,
                     !.anim = [active |-> TRUE, from |-> fromValue, to |-> toValue,
                               start |-> startMs, duration |-> durationMs]]

\* ValueAnimationList::remove
animRemove(w) == [w EXCEPT !.anim = NoAnim]

\* ValueAnimationList::updateAll -> ValueAnimation::update
updateAll(w, nowMs) ==
  LET a == w.anim
      elapsed == IF nowMs >= a.start THEN nowMs - a.start ELSE 0
      t == IF a.duration = 0 THEN LEVEL_ONE
           ELSE clampf((elapsed * LEVEL_ONE) \div a.duration, 0, LEVEL_ONE)
  IN  IF ~a.active THEN w
      ELSE IF elapsed >= a.duration \/ t >= LEVEL_ONE
           THEN [w EXCEPT !.st.blinkLevel = a.to, !.anim = NoAnim]
           ELSE [w EXCEPT !.st.blinkLevel = lerpf(a.from, a.to, easeOut(t))]

resetBlink(w, nowMs) ==
  animRemove([w EXCEPT !.st.blinkTs = nowMs,
                       !.st.blinkOn = FALSE,
                       !.st.blinkDurationMs = 0,
                       !.st.blinkFrameTs = nowMs,
                       !.st.blinkLevel = 0])

\* renderAll draws; of the state it only touches the display side
renderAll(w) == [w EXCEPT !.drew = TRUE]

-----------------------------------------------------------------------------
(* ValueAnimationList as pomodoro.h defines it: MAX_VALUE_ANIMATIONS items *)
(* and the floats they drive.  A list value l has the items, the floats    *)
(* by name and the writes made to them.                                    *)

\* The floats the firmware animates
Targets == {"blinkLevel", "settingFracCurrent", "centerFadeLevel"}

\* ValueAnimation::reset
ResetItem ==
  [target |-> "nullptr", from |-> 0, to |-> 0, start |-> 0, duration |-> 0,
   ease |-> "easeLinear", active |-> FALSE]

NoItems == [k \in 1..MAX_VALUE_ANIMATIONS |-> ResetItem]
\* The floats of PomodoroState, DisplayState and DisplayDialCache: what a
\* caller can hand to the list
Floats ==
  Targets \cup {"settingFracTarget", "wedgeEndDeg", "prevWedgeEndDeg", "pointerAngleDeg"}

\* the floats as PomodoroState and DisplayState initialise them
InitVals == [tg \in Floats |-> IF tg = "centerFadeLevel" THEN LEVEL_ONE ELSE 0]
List(i, v, w) == [items |-> i, vals |-> v, wrote |-> w]

\* *target = v by the entry a
write(l, a, v) ==
  [l EXCEPT !.vals[a.target] = v,
            !.wrote = @ \cup {[target |-> a.target, val |-> v,
                               from |-> a.from, to |-> a.to]}]

\* A begin that frees the item without writing `to` when the entry ends at
\* once
beginNoSnap(l, k, valuePtr, fromValue, toValue, startMs, durationMs, easeFn) ==
  LET a == [target |-> valuePtr, from |-> fromValue, to |-> toValue,
            start |-> startMs, duration |-> durationMs, ease |-> easeFn,
            active |-> (durationMs > 0) /\ (fabs(toValue - fromValue) > 0)]
  IN  IF valuePtr = "nullptr" \/ ~a.active THEN [l EXCEPT !.items[k] = ResetItem]
      ELSE [write(l, a, fromValue) EXCEPT !.items[k] = a]

\* ValueAnimation::begin on items[k]
begin(l, k, valuePtr, fromValue, toValue, startMs, durationMs, easeFn) ==
  LET a == [target |-> valuePtr, from |-> fromValue, to |-> toValue,
            start |-> startMs, duration |-> durationMs, ease |-> easeFn,
            active |-> (durationMs > 0) /\ (fabs(toValue - fromValue) > 0)]
  IN  IF valuePtr = "nullptr" THEN [l EXCEPT !.items[k] = ResetItem]
      ELSE IF ~a.active
           THEN [write(l, a, toValue) EXCEPT !.items[k] = ResetItem]
           ELSE [write(l, a, fromValue) EXCEPT !.items[k] = a]

\* ValueAnimation::update on items[k]
update(l, k, nowMs) ==
  LET a == l.items[k]
      elapsed == IF nowMs >= a.start THEN nowMs - a.start ELSE 0
      t == IF a.duration = 0 \/ elapsed >= a.duration THEN LEVEL_ONE
           ELSE clampf((elapsed * LEVEL_ONE) \div a.duration, 0, LEVEL_ONE)
      l1 == write(l, a, lerpf(a.from, a.to, ease(a.ease, t)))
  IN  IF ~a.active \/ a.target = "nullptr" THEN l
      ELSE IF elapsed >= a.duration \/ t >= LEVEL_ONE
           THEN [write(l1, a, a.to) EXCEPT !.items[k] = ResetItem]
           ELSE l1

matches(a, valuePtr) == a.active /\ a.target = valuePtr

\* An allocate that hands out the first item when none is free
allocateEvict(l) ==
  LET free == {k \in 1..MAX_VALUE_ANIMATIONS : ~l.items[k].active}
  IN  IF free = {} THEN 1 ELSE CHOOSE k \in free : \A j \in free : k <= j

\* ValueAnimationList::find and allocate: the index of the item, 0 for nullptr
\* A find that never finds the entry of a float
findNever(l, valuePtr) == 0

find(l, valuePtr) ==
  LET hit == {k \in 1..MAX_VALUE_ANIMATIONS : matches(l.items[k], valuePtr)}
  IN  IF valuePtr = "nullptr" \/ hit = {} THEN 0
      ELSE CHOOSE k \in hit : \A j \in hit : k <= j

allocate(l) ==
  LET free == {k \in 1..MAX_VALUE_ANIMATIONS : ~l.items[k].active}
  IN  IF free = {} THEN 0 ELSE CHOOSE k \in free : \A j \in free : k <= j

\* A start that does not look for the entry of the same float
startNoFind(l, valuePtr, fromValue, toValue, startMs, durationMs, easeFn) ==
  LET slot == allocate(l)
  IN  IF valuePtr = "nullptr" \/ slot = 0 THEN l
      ELSE begin(l, slot, valuePtr, fromValue, toValue, startMs, durationMs, easeFn)

start(l, valuePtr, fromValue, toValue, startMs, durationMs, easeFn) ==
  LET found == find(l, valuePtr)
      slot == IF found = 0 THEN allocate(l) ELSE found
      l1 == IF found = 0 THEN l ELSE [l EXCEPT !.items[found] = ResetItem]
  IN  IF valuePtr = "nullptr" \/ slot = 0 THEN l
      ELSE begin(l1, slot, valuePtr, fromValue, toValue, startMs, durationMs, easeFn)

startTo(l, valuePtr, toValue, startMs, durationMs, easeFn) ==
  LET fromValue == IF valuePtr = "nullptr" THEN 0 ELSE l.vals[valuePtr]
  IN  start(l, valuePtr, fromValue, toValue, startMs, durationMs, easeFn)

remove(l, valuePtr) ==
  LET slot == find(l, valuePtr)
  IN  IF slot = 0 THEN l ELSE [l EXCEPT !.items[slot] = ResetItem]

clear(l) == [l EXCEPT !.items = NoItems]

isActive(l, valuePtr) ==
  /\ valuePtr # "nullptr"
  /\ \E k \in 1..MAX_VALUE_ANIMATIONS :
       l.items[k].active /\ l.items[k].target = valuePtr

\* ValueAnimationList::updateAll, from items[k] on
RECURSIVE updateFrom(_, _, _)
updateFrom(l, k, nowMs) ==
  IF k > MAX_VALUE_ANIMATIONS THEN l
  ELSE updateFrom(IF l.items[k].active THEN update(l, k, nowMs) ELSE l, k + 1, nowMs)

updateItems(l, nowMs) == updateFrom(l, 1, nowMs)

-----------------------------------------------------------------------------
(* render: the dial cache and the sectors of the dial that the draw        *)
(* functions fill.  Angles are in thousandths of a degree and fractions in *)
(* units of 1 / FRAC_ONE.  A display value D has the cache (dial), the     *)
(* colour of each sector (ring) and the history of the call (probe).  The  *)
(* hand, the hub, the tip and the rim arc are not sectors and are left out.*)

ANGLE_EPS == 250
POINTER_RESTORE_SPAN == 2500
FULL_TURN == 360 * 1000
FRAC_ONE == 100 * 1000

\* The remaining seconds the dial is drawn for: steps of two seconds are
\* below ANGLE_EPS, two of them together are above it
Secs == {0, 2, 900, 902, 904, 1800}

normalizeAngle(deg) == deg % FULL_TURN

hourScaledFraction(seconds) ==
  clampf((seconds * FRAC_ONE) \div ((60 * 601) \div 10), 0, FRAC_ONE)

\* 360.0f * frac
turnOf(frac) == (360 * frac) \div (FRAC_ONE \div 1000)

\* The sector boundaries: every angle at which a fill can begin or end
Marks ==
  {0} \cup {normalizeAngle(turnOf(hourScaledFraction(sec)) + o) :
              sec \in Secs, o \in {0, 0 - POINTER_RESTORE_SPAN, 10 * 1000}}

\* DisplayDialCache{}
NewDial ==
  [wedgeValid |-> FALSE, wedgeEndDeg |-> 0, prevWedgeEndDeg |-> 0,
   wedgeColor |-> "COL_BG", pointerValid |-> FALSE, pointerAngleDeg |-> 0,
   blinkVisible |-> FALSE, blinkAngleDeg |-> 0]

\* the history of a call: its arguments (sec, total, paused, bg, forced),
\* the validity flags fillScreen found (seen), the cache fields read while
\* their flag was false (stale), what drawMinuteHand found in the cache and
\* painted when it erased the previous hand (hand), and whether
\* drawBlinkingTip erased the previous tip or drew a new one (tip)
NoProbe ==
  [fn |-> "none", sec |-> 0, total |-> 0, paused |-> FALSE, bg |-> "COL_BG",
   forced |-> FALSE, seen |-> <<>>, stale |-> {}, hand |-> <<>>, tip |-> "none"]

Display(d, r, p) == [dial |-> d, ring |-> r, probe |-> p]

\* a draw decision reads the cache fields `fields`, which `valid` guards
reads(D, fields, valid) ==
  IF valid THEN D ELSE [D EXCEPT !.probe.stale = @ \cup fields]

\* tft.fillScreen
fillScreen(D, color) ==
  [D EXCEPT !.ring = [m \in Marks |-> color],
            !.probe.seen = <<D.dial.wedgeValid, D.dial.pointerValid, D.dial.blinkVisible>>]

\* the sector from the mark m to the next mark lies in the sweep from a0
fillSector(D, a0_deg, a1_deg, color) ==
  LET a0 == normalizeAngle(a0_deg)
      a1 == normalizeAngle(a1_deg)
      sweep == IF a1 - a0 < 0 THEN a1 - a0 + FULL_TURN ELSE a1 - a0
  IN  [D EXCEPT !.ring = [m \in Marks |->
                            IF (m - a0) % FULL_TURN < sweep THEN color ELSE @[m]]]

paintRingSegment(D, fromDeg, toDeg, fillColor) ==
  LET sweep == IF toDeg - fromDeg < 0 THEN toDeg - fromDeg + FULL_TURN
               ELSE toDeg - fromDeg
      startDeg == normalizeAngle(fromDeg)
  IN  IF sweep <= ANGLE_EPS THEN D
      ELSE fillSector(D, startDeg, startDeg + sweep, fillColor)

backgroundColorForMode(mode) ==
  IF mode = "PAUSED" THEN "COL_BG_PAUSED" ELSE "COL_BG"

clearDialArea(D, bgColor) == paintRingSegment(D, 0, FULL_TURN, bgColor)

resetDisplayCache(D) == [D EXCEPT !.dial = NewDial]

drawDialBackground(D, bgColor, clearAll) ==
  IF clearAll THEN fillScreen(D, bgColor) ELSE D

drawRemainingWedge(D, remainingSec, totalSec, paused, bgColor) ==
  LET cache == D.dial
      newEnd == turnOf(hourScaledFraction(remainingSec))
      color == IF paused THEN "COL_LIGHTRED" ELSE "COL_RED"
      colorChanged == ~cache.wedgeValid \/ cache.wedgeColor # color
      D0 == clearDialArea(D, bgColor)
      D1 == IF ~cache.wedgeValid \/ colorChanged
            THEN IF newEnd > ANGLE_EPS THEN paintRingSegment(D0, 0, newEnd, color)
                 ELSE D0
            ELSE IF newEnd + ANGLE_EPS < cache.wedgeEndDeg
                 THEN paintRingSegment(D, newEnd, cache.wedgeEndDeg, bgColor)
                 ELSE IF newEnd > cache.wedgeEndDeg + ANGLE_EPS
                      THEN paintRingSegment(D, cache.wedgeEndDeg, newEnd, color)
                      ELSE D
  IN  IF totalSec <= 0 THEN D
      ELSE [D1 EXCEPT !.dial.prevWedgeEndDeg = cache.wedgeEndDeg,
                      !.dial.wedgeValid = TRUE,
                      !.dial.wedgeEndDeg = newEnd,
                      !.dial.wedgeColor = color]

\* A drawMinuteHand without the guard on the total
drawMinuteHandNoGuard(D, remainingSec, totalSec, bgColor) ==
  LET cache == D.dial
      angle == turnOf(hourScaledFraction(remainingSec))
      D2 == fillSector(D, angle, angle + 10 * 1000, bgColor)
  IN  [D2 EXCEPT !.dial.pointerValid = TRUE, !.dial.pointerAngleDeg = angle]

drawMinuteHand(D, remainingSec, totalSec, bgColor) ==
  LET cache == D.dial
      angle == turnOf(hourScaledFraction(remainingSec))
      restoreStart == cache.pointerAngleDeg - POINTER_RESTORE_SPAN
      shrunk == cache.prevWedgeEndDeg > cache.wedgeEndDeg + ANGLE_EPS
      erased(color) ==
        [D EXCEPT !.probe.hand = [angle |-> cache.pointerAngleDeg,
                                  wedgeEnd |-> cache.wedgeEndDeg,
                                  wedgeColor |-> cache.wedgeColor,
                                  painted |-> color]]
      D1 == IF ~cache.pointerValid THEN D
            ELSE IF shrunk
                 THEN paintRingSegment(
                        reads(erased(bgColor), {"prevWedgeEndDeg", "wedgeEndDeg"},
                              cache.wedgeValid),
                        restoreStart, cache.pointerAngleDeg, bgColor)
                 ELSE paintRingSegment(
                        reads(erased(cache.wedgeColor),
                              {"prevWedgeEndDeg", "wedgeEndDeg", "wedgeColor"},
                              cache.wedgeValid),
                        restoreStart, cache.pointerAngleDeg, cache.wedgeColor)
      D2 == fillSector(D1, angle, angle + 10 * 1000, bgColor)
  IN  IF totalSec <= 0 THEN D
      ELSE [D2 EXCEPT !.dial.pointerValid = TRUE, !.dial.pointerAngleDeg = angle]

\* drawBlinkingTip's clearPrevious
clearPrevious(D) ==
  LET cache == D.dial
      onWedge == cache.blinkAngleDeg <= cache.wedgeEndDeg + ANGLE_EPS
      D1 == reads(D, IF onWedge THEN {"wedgeEndDeg", "wedgeColor"} ELSE {"wedgeEndDeg"},
                  cache.wedgeValid)
  IN  IF ~cache.blinkVisible THEN D
      ELSE [D1 EXCEPT !.dial.blinkVisible = FALSE, !.probe.tip = "erased"]

drawBlinkingTip(D, remainingSec, totalSec, on, bgColor) ==
  LET cache == D.dial
      frac == clampf((remainingSec * FRAC_ONE) \div totalSec, 0, FRAC_ONE)
      screenAngle == normalizeAngle(turnOf(frac))
  IN  IF ~on \/ totalSec <= 0 THEN clearPrevious(D)
      ELSE IF cache.blinkVisible /\ fabs(screenAngle - cache.blinkAngleDeg) <= ANGLE_EPS
           THEN D
           ELSE [clearPrevious(D) EXCEPT !.dial.blinkVisible = TRUE,
                                         !.dial.blinkAngleDeg = screenAngle,
                                         !.probe.tip = "drawn"]

(* renderAll on a display value.  `view` is what renderAll reads of the    *)
(* state and the clock: the mode, the seconds the dial shows (remainingSec *)
(* and totalSec, totalSec 0 when runDurationMs is 0), whether less than    *)
(* 100 ms of the session have elapsed (early) and whether the blink level  *)
(* is at least 0.5 (on).                                                   *)
renderAllOn(D, view, forceBg) ==
  LET bgColor == backgroundColorForMode(view.mode)
      D0 == [D EXCEPT !.probe = [fn |-> "renderAll", sec |-> view.remainingSec,
                                 total |-> view.totalSec,
                                 paused |-> view.mode = "PAUSED", bg |-> bgColor,
                                 forced |-> forceBg, seen |-> <<>>, stale |-> {},
                                 hand |-> <<>>, tip |-> "none"]]
      D1 == drawDialBackground(IF forceBg THEN resetDisplayCache(D0) ELSE D0,
                               bgColor, forceBg)
      paused == view.mode = "PAUSED"
      D2 == IF view.early
            THEN drawRemainingWedge(D1, view.remainingSec, view.totalSec, paused, bgColor)
            ELSE D1
      D3 == drawMinuteHand(D2, view.remainingSec, view.totalSec, bgColor)
  IN  CASE view.mode = "SETTING" ->
             drawMinuteHand(
               drawRemainingWedge(D1, view.remainingSec, view.totalSec, FALSE, bgColor),
               view.remainingSec, view.totalSec, bgColor)
        [] view.mode \in {"RUNNING", "PAUSED"} ->
             IF view.totalSec = 0 THEN D1
             ELSE drawBlinkingTip(D3, view.remainingSec, view.totalSec,
                                  paused /\ view.on, bgColor)
        [] OTHER -> D1

-----------------------------------------------------------------------------
(* states: the entry functions *)

(* The center-display window and the zero-minute flag are armed on entry   *)
(* to SETTING.  updateStateMachine reads centerDisplayUntilMs and          *)
(* pendingTimeout; the entry function that writes them is the two-argument *)
(* enterSetting declared in pomodoro.h.                                    *)
armCenterDisplay(w, nowMs) ==
  [w EXCEPT !.st.centerDisplayUntilMs = Add32(nowMs, CENTER_DISPLAY_MS),
            !.st.centerDisplayValue = currentMinutes(w.st),
            !.st.pendingTimeout = (currentMinutes(w.st) = 0)]

\* enterSetting: targetFrac, in units of 1 / FRAC_ONE
targetFrac(s) ==
  LET minutes == currentMinutes(s)
      seconds == IF minutes = 0 THEN 60 ELSE minutes * 60
  IN  clampf((seconds * FRAC_ONE) \div (60 * 60), 0, FRAC_ONE)

\* An enterSetting that does not set the mode
enterSettingKeepMode(w, nowMs) ==
  LET w1 == [w EXCEPT !.st.stateTs = nowMs,
                      !.st.lastInputMs = nowMs,
                      !.st.settingFracTarget = targetFrac(w.st)]
  IN  renderAll(armCenterDisplay(resetBlink(w1, nowMs), nowMs))

enterSetting(w, nowMs) ==
  LET w1 == [w EXCEPT !.st.mode = "SETTING",
                      !.st.stateTs = nowMs,
                      !.st.lastInputMs = nowMs,
                      !.st.settingFracTarget = targetFrac(w.st)]
  IN  renderAll(armCenterDisplay(resetBlink(w1, nowMs), nowMs))

\* enterTimeout up to its first wait: the blink loop continues in the
\* actions TimeoutWait and GoToSleep
enterTimeout(w) == renderAll([w EXCEPT !.st.mode = "TIMEOUT"])

startRunFromSelection(w, nowMs) ==
  LET minutes == currentMinutes(w.st)
  IN  IF minutes = 0 THEN enterTimeout(w)
      ELSE renderAll(resetBlink(
             [w EXCEPT !.st.mode = "RUNNING",
                       !.st.stateTs = nowMs,
                       !.st.runDurationMs = minutes * 60 * 1000,
                       !.st.runStartMs = nowMs,
                       !.st.pausedAtMs = 0], nowMs))

\* A resumeRun that forgets to shift the session start by the paused time
resumeRunKeepStart(w, nowMs) ==
  IF w.st.mode # "PAUSED" THEN w
  ELSE renderAll(resetBlink(
         [w EXCEPT !.st.pausedAtMs = 0,
                   !.st.mode = "RUNNING",
                   !.st.stateTs = nowMs], nowMs))

\* A resumeRun without the guard on the mode
resumeRunUnguarded(w, nowMs) ==
  renderAll(resetBlink(
    [w EXCEPT !.st.runStartMs = Add32(w.st.runStartMs, Sub32(nowMs, w.st.pausedAtMs)),
              !.st.pausedAtMs = 0,
              !.st.mode = "RUNNING",
              !.st.stateTs = nowMs], nowMs))

resumeRun(w, nowMs) ==
  IF w.st.mode # "PAUSED" THEN w
  ELSE renderAll(resetBlink(
         [w EXCEPT !.st.runStartMs = Add32(w.st.runStartMs, Sub32(nowMs, w.st.pausedAtMs)),
                   !.st.pausedAtMs = 0,
                   !.st.mode = "RUNNING",
                   !.st.stateTs = nowMs], nowMs))

enterPaused(w, nowMs) ==
  renderAll([w EXCEPT !.st.mode = "PAUSED",
                      !.st.pausedAtMs = nowMs,
                      !.st.stateTs = nowMs,
                      !.st.blinkTs = nowMs,
                      !.st.blinkOn = TRUE])

-----------------------------------------------------------------------------
(* input: handleEncoderInput, handleButtonInput *)

throttleExpired(s, nowMs) ==
  (s.lastEncoderMs = 0) \/ (Sub32(nowMs, s.lastEncoderMs) >= ENCODER_THROTTLE_MS)

\* A handleEncoderInput that steps the option without entering SETTING
handleEncoderInputNoEnter(w, stp, nowMs) ==
  LET eff == IF throttleExpired(w.st, nowMs) THEN stp ELSE 0
      idx == IF eff > 0 THEN (w.st.optionIndex + 1) % OPTION_COUNT
             ELSE (w.st.optionIndex + OPTION_COUNT - 1) % OPTION_COUNT
  IN  IF eff = 0 THEN w
      ELSE [w EXCEPT !.st.lastEncoderMs = nowMs, !.st.optionIndex = idx]

\* A handleEncoderInput that moves the option by the number of steps
handleEncoderInputBySteps(w, stp, nowMs) ==
  LET eff == IF throttleExpired(w.st, nowMs) THEN stp ELSE 0
      idx == (w.st.optionIndex + OPTION_COUNT * OPTION_COUNT + eff) % OPTION_COUNT
  IN  IF eff = 0 THEN w
      ELSE enterSetting([w EXCEPT !.st.lastEncoderMs = nowMs,
                                  !.st.optionIndex = idx], nowMs)

\* `stp` is the snapshot of gEncoder.steps; the counter itself is cleared
\* by the action
handleEncoderInput(w, stp, nowMs) ==
  LET eff == IF throttleExpired(w.st, nowMs) THEN stp ELSE 0
      idx == IF eff > 0 THEN (w.st.optionIndex + 1) % OPTION_COUNT
             ELSE (w.st.optionIndex + OPTION_COUNT - 1) % OPTION_COUNT
  IN  IF eff = 0 THEN w
      ELSE enterSetting([w EXCEPT !.st.lastEncoderMs = nowMs,
                                  !.st.optionIndex = idx], nowMs)

\* A handleButtonInput whose press pauses in PAUSED too instead of resuming
handleButtonInputNoResume(w, fell, nowMs) ==
  IF ~fell THEN w
  ELSE CASE w.st.mode \in {"SETTING", "RUNNING", "PAUSED"} -> enterPaused(w, nowMs)
         [] w.st.mode = "TIMEOUT" -> enterSetting(w, nowMs)
         [] OTHER -> w

handleButtonInput(w, fell, nowMs) ==
  IF ~fell THEN w
  ELSE CASE w.st.mode \in {"SETTING", "RUNNING"} -> enterPaused(w, nowMs)
         [] w.st.mode = "PAUSED" -> resumeRun(w, nowMs)
         [] w.st.mode = "TIMEOUT" -> enterSetting(w, nowMs)
         [] OTHER -> w

-----------------------------------------------------------------------------
(* state_machine: updateStateMachine, one operator per case of the switch *)

\* An updateSetting that does not look at pendingTimeout
updateSettingNoPending(w, nw) ==
  LET w1 == renderAll(w)
  IN  IF nw > w1.st.centerDisplayUntilMs
      THEN renderAll([w1 EXCEPT !.st.centerDisplayUntilMs = 0,
                                !.st.centerDisplayValue = 0,
                                !.st.pendingTimeout = FALSE,
                                !.st.stateTs = nw,
                                !.st.blinkTs = nw,
                                !.st.mode = "RUNNING"])
      ELSE w1

updateSetting(w, nw) ==
  IF w.st.pendingTimeout THEN enterTimeout(w)
  ELSE LET w1 == renderAll(w)
       IN  IF nw > w1.st.centerDisplayUntilMs
           THEN renderAll([w1 EXCEPT !.st.centerDisplayUntilMs = 0,
                                     !.st.centerDisplayValue = 0,
                                     !.st.pendingTimeout = FALSE,
                                     !.st.stateTs = nw,
                                     !.st.blinkTs = nw,
                                     !.st.mode = "RUNNING"])
           ELSE w1

\* An updateRunning whose expiry test is strict
updateRunningStrict(w, nw) ==
  IF w.st.runDurationMs = 0 THEN enterTimeout(w)
  ELSE LET elapsed == computeElapsedMs(w.st, nw)
       IN  IF elapsed > w.st.runDurationMs THEN enterTimeout(w)
           ELSE IF Sub32(nw, w.st.blinkTs) >= RUN_REPAINT_MS
                THEN renderAll([w EXCEPT !.st.blinkTs = nw])
                ELSE w

updateRunning(w, nw) ==
  IF w.st.runDurationMs = 0 THEN enterTimeout(w)
  ELSE LET elapsed == computeElapsedMs(w.st, nw)
       IN  IF elapsed >= w.st.runDurationMs THEN enterTimeout(w)
           ELSE IF Sub32(nw, w.st.blinkTs) >= RUN_REPAINT_MS
                THEN renderAll([w EXCEPT !.st.blinkTs = nw])
                ELSE w

\* An idle test that is strict
pausedIdleExpiredStrict(s, nw) == Sub32(nw, s.pausedAtMs) > PAUSE_IDLE_DELAY_MS

pausedIdleExpired(s, nw) == Sub32(nw, s.pausedAtMs) >= PAUSE_IDLE_DELAY_MS

updatePaused(w, nw) ==
  IF pausedIdleExpired(w.st, nw) THEN enterTimeout(w)
  ELSE LET s == w.st
           duration == IF s.blinkDurationMs > 0 THEN s.blinkDurationMs
                       ELSE IF s.blinkOn THEN PAUSE_BLINK_WHITE_MS
                            ELSE PAUSE_BLINK_BLACK_MS
           toggle == ~w.anim.active /\ Sub32(nw, s.blinkTs) >= duration
           on == ~s.blinkOn
           dur == IF on THEN PAUSE_BLINK_WHITE_MS ELSE PAUSE_BLINK_BLACK_MS
           w1 == IF toggle
                 THEN animStart([w EXCEPT !.st.blinkTs = nw,
                                          !.st.blinkOn = on,
                                          !.st.blinkDurationMs = dur,
                                          !.st.blinkFrameTs = nw],
                                s.blinkLevel, IF on THEN LEVEL_ONE ELSE 0, nw, dur)
                 ELSE w
           frame == Sub32(nw, w1.st.blinkFrameTs) >= PAUSE_BLINK_FRAME_MS
           w2 == IF frame THEN [w1 EXCEPT !.st.blinkFrameTs = nw] ELSE w1
       IN  IF toggle \/ frame THEN renderAll(w2) ELSE w2

updateStateMachine(w, nw) ==
  LET w0 == updateAll(w, nw)
  IN  CASE w0.st.mode = "SETTING" -> updateSetting(w0, nw)
        [] w0.st.mode = "RUNNING" -> updateRunning(w0, nw)
        [] w0.st.mode = "PAUSED" -> updatePaused(w0, nw)
        [] OTHER -> w0

-----------------------------------------------------------------------------
(* The program *)

\* PomodoroState's member initialisers
DefaultState ==
  [mode |-> "SETTING", optionIndex |-> 0, lastInputMs |-> 0, stateTs |-> 0,
   runStartMs |-> 0, runDurationMs |-> 0, pausedAtMs |-> 0,
   blinkOn |-> FALSE, blinkTs |-> 0, blinkDurationMs |-> 0, blinkFrameTs |-> 0,
   blinkLevel |-> 0, lastEncoderMs |-> 0, settingFracTarget |-> 0,
   centerDisplayUntilMs |-> 0, centerDisplayValue |-> 0, pendingTimeout |-> FALSE]

\* Time that passes between two passes of loop(): a second (the repaint and
\* throttle periods, half the center-display window), the idle delay of
\* PAUSED, and the shortest non-zero session
TickAdvance == {RUN_REPAINT_MS, PAUSE_IDLE_DELAY_MS, OPTIONS[1] * 60 * 1000}

\* Counter values at which the light sleep may end (it lasts arbitrarily
\* long): close enough to the wrap for the next window, pause or session to
\* span it
WakeClocks == {UINT_MOD - 1500}

\* Cycles of enterTimeout's blink during which the encoder may be turned:
\* the first, within ENCODER_THROTTLE_MS of what came before, and the last
TurnCycles == {0, TIMEOUT_BLINK_COUNT - 1}

Cur == World(st, anim, FALSE)

events == presses + turns + drift + ops + faults

\* Time spent since the previous read of millis() within one pass
Latency == IF events < MaxEvents THEN {0, 1} ELSE {0}

InSession(m) == m \in {"RUNNING", "PAUSED"}

\* A step of the main thread: the handler's result w at counter value c
Handler(name, w, c) ==
  /\ st' = w.st
  /\ anim' = w.anim
  /\ drew' = w.drew
  /\ clock' = c
  /\ last' = name
  /\ prev' = st
  /\ accepted' =
       IF name \in {"encoder", "poll"} /\ w.st.optionIndex # st.optionIndex
       THEN [any |-> TRUE,
             early |-> accepted.any /\ Sub32(c, st.lastEncoderMs) < ENCODER_THROTTLE_MS]
       ELSE accepted

\* A step of loop(): the session, if there is one, goes on while the mode
\* is RUNNING or PAUSED, and its time runs in RUNNING
Step(name, w, c) ==
  /\ Handler(name, w, c)
  /\ ranMs' = IF ranMs < 0 \/ ~InSession(w.st.mode) THEN -1
              ELSE IF st.mode = "RUNNING" THEN ranMs + Sub32(c, clock)
              ELSE ranMs

\* The main thread enters enterTimeout's blink loop when the handler called
\* enterTimeout, and is back at the top of loop() otherwise
AfterHandler ==
  IF st'.mode = "TIMEOUT"
  THEN pc' = "tmo" /\ tmoI' = 0 /\ tmoPhase' = 0 /\ tmoStart' = clock'
  ELSE pc' = "loop" /\ UNCHANGED <<tmoI, tmoPhase, tmoStart>>

\* setup(): optionIndex = 0, enterSetting
\* no function of utils has been called
NoRet == [fn |-> "none", since |-> 0, val |-> 0]

\* the list on its own has not been used
ListIdle ==
  /\ items = NoItems /\ vals = InitVals /\ wrote = {} /\ stamp = 0 /\ starts = 0
  /\ twin = [items |-> NoItems, vals |-> InitVals, wrote |-> {}, stamp |-> 0]

\* The view of setup(): SETTING with the first option, the dial at rest on
\* its fraction of the hour
BootView ==
  [mode |-> "SETTING", remainingSec |-> OPTIONS[1] * 60, totalSec |-> OPTIONS[1] * 60,
   early |-> TRUE, on |-> FALSE]

\* the display after setup(): enterSetting's renderAll(st, true, now) on a
\* new DisplayState
DisplayBooted ==
  LET D == renderAllOn(Display(NewDial, [m \in Marks |-> "COL_BG"], NoProbe),
                       BootView, TRUE)
  IN  dial = D.dial /\ ring = D.ring /\ probe = D.probe

\* the firmware after setup()
InitLoop ==
  /\ LET w == enterSetting(World(DefaultState, NoAnim, FALSE), BootMs)
     IN  st = w.st /\ anim = w.anim /\ drew = w.drew
  /\ steps = 0
  /\ clock = BootMs
  /\ now = 0
  /\ pc = "loop"
  /\ tmoI = 0 /\ tmoPhase = 0 /\ tmoStart = 0
  /\ last = "setup" /\ prev = DefaultState /\ ranMs = -1
  /\ accepted = [any |-> FALSE, early |-> FALSE]
  /\ calls = 0 /\ ops = 0 /\ faults = 0 /\ loops = 0 /\ presses = 0 /\ turns = 0 /\ drift = 0

Init == InitLoop /\ ret = NoRet /\ ListIdle /\ DisplayBooted

\* onEncChange completing a detent in direction dir.  The interrupt may
\* come at any time; the main thread reads the counter at the top of a pass
\* and in the polls of enterTimeout, so a detent is placed before a pass or
\* before a wait of the blink (the waits of the cycles in TurnCycles).
OnEncChange(dir) ==
  /\ \/ pc = "loop"
     \/ pc = "tmo" /\ tmoPhase = 0 /\ tmoI \in TurnCycles
  /\ events < MaxEvents
  /\ steps' = steps + dir
  /\ turns' = turns + 1
  /\ UNCHANGED <<st, anim, clock, now, pc, tmoI, tmoPhase, tmoStart, drew,
                 last, prev, ranMs, accepted, calls, ops, faults, loops, presses,
                 drift>>
  /\ UNCHANGED lab

\* loop(): uint32_t now = millis();
SampleNow(d) ==
  /\ pc = "loop"
  /\ loops < MaxLoops
  /\ Step("now", Cur, Add32(clock, d))
  /\ now' = clock'
  /\ pc' = "enc"
  /\ loops' = loops + 1
  /\ UNCHANGED <<steps, tmoI, tmoPhase, tmoStart, calls, ops, faults, presses,
                 turns, drift>>
  /\ UNCHANGED lab

\* loop(): handleEncoderInput(gState);
HandleEncoderInput(d) ==
  /\ pc = "enc"
  /\ Step("encoder", handleEncoderInput(Cur, steps, Add32(clock, d)), Add32(clock, d))
  /\ drift' = drift + d
  /\ steps' = 0
  /\ pc' = "btn"
  /\ UNCHANGED <<now, tmoI, tmoPhase, tmoStart, calls, ops, faults, loops, presses, turns>>
  /\ UNCHANGED lab

\* loop(): handleButtonInput(gState); fell is btnDebounce.fell()
HandleButtonInput(fell, d) ==
  /\ pc = "btn"
  /\ fell => events + d < MaxEvents
  /\ Step(IF fell THEN "press" ELSE "button",
          handleButtonInput(Cur, fell, Add32(clock, d)), Add32(clock, d))
  /\ drift' = drift + d
  /\ presses' = IF fell THEN presses + 1 ELSE presses
  /\ pc' = "usm"
  /\ UNCHANGED <<steps, now, tmoI, tmoPhase, tmoStart, calls, ops, faults, loops, turns>>
  /\ UNCHANGED lab

\* loop(): updateStateMachine(gState, now);
UpdateStateMachine ==
  /\ pc = "usm"
  /\ Step("update", updateStateMachine(Cur, now), clock)
  /\ AfterHandler
  /\ UNCHANGED <<steps, now, calls, ops, faults, loops, presses, turns, drift>>
  /\ UNCHANGED lab

\* waitForEncoderDuringTimeout: a poll that finds encoder steps
TimeoutPoll ==
  /\ pc = "tmo"
  /\ steps # 0
  /\ Step("poll", handleEncoderInput(Cur, steps, clock), clock)
  /\ steps' = 0
  /\ pc' = IF st'.mode = "SETTING" THEN "loop" ELSE "tmo"
  /\ UNCHANGED <<now, tmoI, tmoPhase, tmoStart, calls, ops, faults, loops, presses, turns,
                 drift>>
  /\ UNCHANGED lab

\* The button is pressed and released during the first wait of the blink.
\* wakeupFromButton is empty and waitForEncoderDuringTimeout does not call
\* btnDebounce.update(), so the firmware does not see the press.
PressDuringTimeout ==
  /\ pc = "tmo" /\ tmoPhase = 0 /\ tmoI = 0
  /\ events < MaxEvents
  /\ Step("press", Cur, clock)
  /\ presses' = presses + 1
  /\ UNCHANGED <<steps, now, pc, tmoI, tmoPhase, tmoStart, calls, ops, faults, loops,
                 turns, drift>>
  /\ UNCHANGED lab

\* waitForEncoderDuringTimeout runs out with nothing to handle; enterTimeout
\* goes on to the second half of the cycle or to the next cycle
TimeoutElapse ==
  /\ pc = "tmo"
  /\ steps = 0
  /\ tmoPhase = 0 \/ tmoI + 1 < TIMEOUT_BLINK_COUNT
  /\ Step("wait", renderAll(Cur), Add32(tmoStart, TIMEOUT_WAIT_MS))
  /\ tmoStart' = clock'
  /\ tmoPhase' = 1 - tmoPhase
  /\ tmoI' = IF tmoPhase = 1 THEN tmoI + 1 ELSE tmoI
  /\ UNCHANGED <<steps, now, pc, calls, ops, faults, loops, presses, turns, drift>>
  /\ UNCHANGED lab

\* The last wait runs out: goToSleep up to esp_light_sleep_start
GoToSleep ==
  /\ pc = "tmo"
  /\ steps = 0
  /\ tmoPhase = 1 /\ tmoI + 1 = TIMEOUT_BLINK_COUNT
  /\ Step("sleep", [Cur EXCEPT !.st.mode = "SLEEPING"], Add32(tmoStart, TIMEOUT_WAIT_MS))
  /\ pc' = "sleep"
  /\ UNCHANGED <<steps, now, tmoI, tmoPhase, tmoStart, calls, ops, faults, loops, presses,
                 turns, drift>>
  /\ UNCHANGED lab

\* A wake event ends the light sleep: goToSleep's enterSetting
Wake(c) ==
  /\ pc = "sleep"
  /\ Step("wake", enterSetting(Cur, c), c)
  /\ pc' = "loop"
  /\ UNCHANGED <<steps, now, tmoI, tmoPhase, tmoStart, calls, ops, faults, loops,
                 presses, turns, drift>>
  /\ UNCHANGED lab

\* esp_light_sleep_start returns an error at once, the counter is where it
\* was: goToSleep goes on to enterSetting all the same
SleepFails ==
  /\ pc = "sleep"
  /\ events < MaxEvents
  /\ Step("wake", enterSetting(Cur, clock), clock)
  /\ pc' = "loop"
  /\ faults' = faults + 1
  /\ UNCHANGED <<steps, now, tmoI, tmoPhase, tmoStart, calls, ops, loops,
                 presses, turns, drift>>
  /\ UNCHANGED lab

Next ==
  \/ \E dir \in {-1, 1} : OnEncChange(dir)
  \/ \E d \in TickAdvance : SampleNow(d)
  \/ \E d \in Latency : HandleEncoderInput(d)
  \/ \E fell \in BOOLEAN, d \in Latency : HandleButtonInput(fell, d)
  \/ UpdateStateMachine
  \/ TimeoutPoll
  \/ PressDuringTimeout
  \/ TimeoutElapse
  \/ GoToSleep
  \/ \E c \in WakeClocks : Wake(c)
  \/ SleepFails

Spec == Init /\ [][Next]_vars

\* The main thread keeps running: a wait of the blink ends, by a poll that
\* finds steps or by its time running out
BlinkStep == TimeoutPoll \/ TimeoutElapse \/ GoToSleep

\* The passes of loop() without delay inside the handlers, which plays no
\* part in the blink
NextLive ==
  \/ \E dir \in {-1, 1} : OnEncChange(dir)
  \/ \E d \in TickAdvance : SampleNow(d)
  \/ HandleEncoderInput(0)
  \/ \E fell \in BOOLEAN : HandleButtonInput(fell, 0)
  \/ UpdateStateMachine
  \/ TimeoutPoll
  \/ PressDuringTimeout
  \/ TimeoutElapse
  \/ GoToSleep
  \/ \E c \in WakeClocks : Wake(c)
  \/ SleepFails

SpecLive == Init /\ [][NextLive]_vars /\ WF_vars(BlinkStep)

-----------------------------------------------------------------------------
(* Entry functions called directly, outside loop(): the contracts of       *)
(* startRunFromSelection, resumeRun and enterPaused                        *)

\* startRunFromSelection from the selection screen, as soon as setup, the
\* end of the sleep or a turn during the blink has entered it
CallStartRunFromSelection ==
  /\ pc = "loop"
  /\ st.mode = "SETTING"
  /\ last \in {"setup", "wake", "poll"}
  /\ calls < MaxCalls
  /\ Handler("startRunFromSelection", startRunFromSelection(Cur, clock), clock)
  /\ ranMs' = IF st'.mode = "RUNNING" THEN 0 ELSE -1
  /\ AfterHandler
  /\ calls' = calls + 1
  /\ UNCHANGED <<steps, now, ops, faults, loops, presses, turns, drift>>
  /\ UNCHANGED lab

\* resumeRun in whatever mode the program is in: between two passes of
\* loop(), at the start of the timeout blink or on the way into the sleep
CallResumeRun ==
  /\ \/ pc \in {"loop", "sleep"}
     \/ pc = "tmo" /\ tmoPhase = 0 /\ tmoI = 0
  /\ events < MaxEvents
  /\ Step("resumeRun", resumeRun(Cur, clock), clock)
  /\ ops' = ops + 1
  /\ UNCHANGED <<steps, now, pc, tmoI, tmoPhase, tmoStart, calls, faults, loops, presses,
                 turns, drift>>
  /\ UNCHANGED lab

\* enterPaused between two passes of loop()
CallEnterPaused ==
  /\ pc = "loop"
  /\ events < MaxEvents
  /\ Step("enterPaused", enterPaused(Cur, clock), clock)
  /\ ops' = ops + 1
  /\ UNCHANGED <<steps, now, pc, tmoI, tmoPhase, tmoStart, calls, faults, loops, presses,
                 turns, drift>>
  /\ UNCHANGED lab

\* Time between two passes of loop() while a session is followed: the
\* repaint period and the shortest non-zero session, which is longer than
\* the idle delays
SessionTicks == {RUN_REPAINT_MS, OPTIONS[1] * 60 * 1000}

\* loop() and the interrupt as in Next, and startRunFromSelection
NextSession ==
  \/ \E dir \in {-1, 1} : OnEncChange(dir)
  \/ \E d \in SessionTicks : SampleNow(d)
  \/ \E d \in Latency : HandleEncoderInput(d)
  \/ \E fell \in BOOLEAN, d \in Latency : HandleButtonInput(fell, d)
  \/ UpdateStateMachine
  \/ TimeoutPoll
  \/ PressDuringTimeout
  \/ TimeoutElapse
  \/ GoToSleep
  \/ \E c \in WakeClocks : Wake(c)
  \/ SleepFails
  \/ CallStartRunFromSelection

SpecSession == Init /\ [][NextSession]_vars

NextOps == Next \/ CallResumeRun \/ CallEnterPaused

SpecOps == Init /\ [][NextOps]_vars

-----------------------------------------------------------------------------
(* The functions of utils on their own: a session that                     *)
(* startRunFromSelection began at one of RunStarts, read at one of Nows    *)

\* Session starts on both sides of the wrap of the counter
RunStarts == {0, 1, BootMs, UINT_MOD - 1500, UINT_MAX - 1, UINT_MAX}

\* Time from the start of the session to the reading
Lags ==
  {0, 1, UINT_MAX}
    \cup {OPTIONS[i] * 60 * 1000 + k : i \in 1..OPTION_COUNT, k \in {-1, 0, 1}}

Nows == {Add32(s, g) : s \in RunStarts, g \in Lags}

InitUtil ==
  /\ \E s \in RunStarts, i \in 0..(OPTION_COUNT - 1) :
       LET w0 == World([DefaultState EXCEPT !.optionIndex = i], NoAnim, FALSE)
           w == startRunFromSelection(enterSetting(w0, s), s)
       IN  /\ st = w.st /\ anim = w.anim /\ drew = w.drew /\ prev = w0.st
           /\ accepted = [any |-> i # 0, early |-> FALSE]
  /\ now \in Nows
  /\ clock = now
  /\ steps = 0
  /\ pc = "loop"
  /\ tmoI = 0 /\ tmoPhase = 0 /\ tmoStart = 0
  /\ last = "startRunFromSelection" /\ ranMs = -1
  /\ calls = 0 /\ ops = 0 /\ faults = 0 /\ loops = 0 /\ presses = 0 /\ turns = 0 /\ drift = 0
  /\ ret = NoRet
  /\ ListIdle
  /\ DisplayBooted

CallElapsedSince(since) ==
  /\ ret' = [fn |-> "elapsedSince", since |-> since, val |-> elapsedSince(since, now)]
  /\ UNCHANGED <<fw, disp>>
  /\ UNCHANGED list

CallComputeElapsedMs ==
  /\ ret' = [fn |-> "computeElapsedMs", since |-> st.runStartMs,
             val |-> computeElapsedMs(st, now)]
  /\ UNCHANGED <<fw, disp>>
  /\ UNCHANGED list

CallComputeElapsedMsSub ==
  /\ ret' = [fn |-> "computeElapsedMsSub", since |-> st.runStartMs,
             val |-> computeElapsedMsSub(st, now)]
  /\ UNCHANGED <<fw, disp>>
  /\ UNCHANGED list

CallComputeRemainingMs ==
  /\ ret' = [fn |-> "computeRemainingMs", since |-> st.runStartMs,
             val |-> computeRemainingMs(st, now)]
  /\ UNCHANGED <<fw, disp>>
  /\ UNCHANGED list

NextUtil ==
  \/ \E since \in RunStarts : CallElapsedSince(since)
  \/ CallComputeElapsedMs
  \/ CallComputeElapsedMsSub
  \/ CallComputeRemainingMs

SpecUtil == InitUtil /\ [][NextUtil]_vars

-----------------------------------------------------------------------------
(* One interpolation at a time: start on an empty list, then updateAll at  *)
(* the timestamps of a tour of the counter, again and again                *)

Levels == {0, LEVEL_ONE \div 4, LEVEL_ONE}
Durations == {SETTING_ANIM_DURATION_MS, PAUSE_BLINK_WHITE_MS}

\* Start times just after the counter's zero and just before its maximum
AnimStarts ==
  {0, PAUSE_BLINK_FRAME_MS, UINT_MAX - PAUSE_BLINK_WHITE_MS,
   UINT_MAX - PAUSE_BLINK_FRAME_MS}

\* The timestamps of the tour: the start times, the end of each duration
\* after them, frames in between, and the last value of the counter
Stamps ==
  {x \in AnimStarts \cup {UINT_MAX}
         \cup {b + d : b \in AnimStarts,
                       d \in Durations \cup {PAUSE_BLINK_FRAME_MS, 2 * PAUSE_BLINK_FRAME_MS}} :
     x <= UINT_MAX}

\* the timestamp after c on a tour; after the last one the counter wraps
after(tour, c) ==
  LET later == {x \in tour : x > c}
      from == IF later = {} THEN tour ELSE later
  IN  CHOOSE x \in from : \A y \in from : x <= y

\* what a call on the list was given, what find returned before it
\* (found) and what the call returned (val, 0 for nullptr or false)
ListCall(fn, tg, item, l0, l1) ==
  [fn |-> fn, target |-> tg, item |-> item,
   found |-> find(l0, tg),
   val |-> IF fn \in {"start", "startTo"} THEN find(l1, tg) ELSE find(l0, tg)]

Put(l) == items' = l.items /\ vals' = l.vals /\ wrote' = l.wrote

\* gDisplay.animations.start(...) while the list is empty; the entry
\* starts at the time of the call or at the next timestamp
StartOne(tg, f, t, b, d, e) ==
  /\ items = NoItems
  /\ Put(start(List(items, vals, {}), tg, f, t, b, d, e))
  /\ UNCHANGED <<fw, disp>>
  /\ UNCHANGED <<ret, stamp, starts, twin>>

\* gDisplay.animations.updateAll(nowMs)
UpdateAt(nowMs) ==
  LET l0 == List(items, vals, {})
  IN  /\ stamp' = nowMs
      /\ Put(updateItems(l0, nowMs))
      /\ ret' = ListCall("updateAll", "nullptr", ResetItem, l0, l0)
      /\ UNCHANGED <<fw, disp>>
      /\ UNCHANGED <<starts, twin>>

\* gDisplay.animations.updateAll(now) at the next timestamp
UpdateAll(tour) == UpdateAt(after(tour, stamp))

NextTween ==
  \/ \E tg \in Targets, f \in Levels, t \in Levels, b \in {stamp, after(Stamps, stamp)},
        d \in Durations, e \in EaseFns : StartOne(tg, f, t, b, d, e)
  \/ UpdateAll(Stamps)

SpecTween == Init /\ [][NextTween]_vars

\* updateAll is called in every pass of loop(), each time with a later
\* reading of the counter: the timestamp keeps moving on
Tour == stamp' = after(Stamps, stamp)

SpecTweenLive == SpecTween /\ WF_stamp(Tour)

-----------------------------------------------------------------------------
(* The list under every call the firmware can make on it: start, startTo,  *)
(* remove, clear and updateAll, for the floats that updateStateMachine     *)
(* hands to it                                                             *)

PoolTargets == {"blinkLevel", "settingFracCurrent"}
PoolLevels == {0, LEVEL_ONE}
PoolDurations == {0, PAUSE_BLINK_WHITE_MS}
PoolEaseFns == {"easeOut"}

\* a shorter tour: the start times, the end of the duration after each of
\* them, and the last value of the counter
PoolStamps ==
  {x \in AnimStarts \cup {UINT_MAX} \cup {b + PAUSE_BLINK_WHITE_MS : b \in AnimStarts} :
     x <= UINT_MAX}

\* gDisplay.animations.start(&float, from, to, now, duration, ease)
Start(tg, f, t, d, e) ==
  LET l0 == List(items, vals, {})
      l1 == start(l0, tg, f, t, stamp, d, e)
      item == [target |-> tg, from |-> f, to |-> t, start |-> stamp,
               duration |-> d, ease |-> e, active |-> TRUE]
  IN  /\ stamp \in AnimStarts
      /\ starts < MaxStarts
      /\ Put(l1)
      /\ ret' = ListCall("start", tg, item, l0, l1)
      /\ starts' = starts + 1
      /\ UNCHANGED <<fw, disp>>
      /\ UNCHANGED <<stamp, twin>>

\* gDisplay.animations.startTo(&float, to, now, duration, ease)
StartTo(tg, t, d, e) ==
  LET l0 == List(items, vals, {})
      l1 == startTo(l0, tg, t, stamp, d, e)
      item == [target |-> tg, from |-> vals[tg], to |-> t, start |-> stamp,
               duration |-> d, ease |-> e, active |-> TRUE]
  IN  /\ stamp \in AnimStarts
      /\ starts < MaxStarts
      /\ Put(l1)
      /\ ret' = ListCall("startTo", tg, item, l0, l1)
      /\ starts' = starts + 1
      /\ UNCHANGED <<fw, disp>>
      /\ UNCHANGED <<stamp, twin>>

\* gDisplay.animations.remove(&float)
Remove(tg) ==
  LET l0 == List(items, vals, {})
  IN  /\ Put(remove(l0, tg))
      /\ ret' = ListCall("remove", tg, ResetItem, l0, l0)
      /\ UNCHANGED <<fw, disp>>
      /\ UNCHANGED <<stamp, starts, twin>>

\* gDisplay.animations.clear()
Clear ==
  LET l0 == List(items, vals, {})
  IN  /\ Put(clear(l0))
      /\ ret' = ListCall("clear", "nullptr", ResetItem, l0, l0)
      /\ UNCHANGED <<fw, disp>>
      /\ UNCHANGED <<stamp, starts, twin>>

NextPool ==
  \/ \E tg \in PoolTargets, f \in PoolLevels, t \in PoolLevels,
        d \in PoolDurations, e \in PoolEaseFns : Start(tg, f, t, d, e)
  \/ \E tg \in PoolTargets, t \in PoolLevels,
        d \in PoolDurations, e \in PoolEaseFns : StartTo(tg, t, d, e)
  \/ \E tg \in PoolTargets : Remove(tg)
  \/ Clear
  \/ UpdateAll(PoolStamps)

SpecPool == Init /\ [][NextPool]_vars

\* every item of the list holds an active entry
Full(its) == \A k \in 1..MAX_VALUE_ANIMATIONS : its[k].active

-----------------------------------------------------------------------------
(* The list filled up: start for more floats than the list has items, all  *)
(* at the same reading of the counter, and updateAll                       *)

\* the readings of the counter: the start and the end of the entries
FillStamps == {0, PAUSE_BLINK_WHITE_MS}

\* from and duration of the calls of start: an entry that runs, one of
\* duration 0, and one that is at `to` from the start
FillStarts ==
  {<<0, PAUSE_BLINK_WHITE_MS>>, <<0, 0>>, <<LEVEL_ONE, PAUSE_BLINK_WHITE_MS>>}

\* gDisplay.animations.start(&float, from, 1.0f, now, duration, easeOut):
\* a start that begins an entry is made for a float that has none, and a
\* start that ends at once (duration 0, or from equal to 1.0f) for any float
\* once the list is full
StartFloat(tg, f, d) ==
  LET l0 == List(items, vals, {})
      l1 == start(l0, tg, f, LEVEL_ONE, stamp, d, "easeOut")
      item == [target |-> tg, from |-> f, to |-> LEVEL_ONE, start |-> stamp,
               duration |-> d, ease |-> "easeOut", active |-> TRUE]
  IN  /\ stamp = 0
      /\ IF d = 0 \/ f = LEVEL_ONE THEN Full(items) ELSE find(l0, tg) = 0
      /\ Put(l1)
      /\ ret' = ListCall("start", tg, item, l0, l1)
      /\ UNCHANGED <<fw, disp>>
      /\ UNCHANGED <<stamp, starts, twin>>

NextFill ==
  \/ \E tg \in Floats, fd \in FillStarts : StartFloat(tg, fd[1], fd[2])
  \/ UpdateAll(FillStamps)

SpecFill == Init /\ [][NextFill]_vars

-----------------------------------------------------------------------------
(* Two lists given the same start, each polled by updateAll at readings of *)
(* its own choice along one line of time that passes the wrap of the       *)
(* counter once                                                            *)

\* The readings of the counter in the order of time: the first entries
\* start at 0, much later the counter is near its maximum, and then it
\* wraps
Line ==
  <<0, PAUSE_BLINK_FRAME_MS, SETTING_ANIM_DURATION_MS, PAUSE_BLINK_WHITE_MS,
    UINT_MAX - PAUSE_BLINK_WHITE_MS, UINT_MAX - PAUSE_BLINK_WHITE_MS + PAUSE_BLINK_FRAME_MS,
    UINT_MAX - 1, UINT_MAX,
    PAUSE_BLINK_FRAME_MS - 1, PAUSE_BLINK_WHITE_MS + PAUSE_BLINK_FRAME_MS - 1>>

Pos(c) == CHOOSE i \in 1..Len(Line) : Line[i] = c
Later(c) == {Line[i] : i \in (Pos(c) + 1)..Len(Line)}

\* the time of a reading, counted on through the wrap
TimeOf(c) == IF Pos(c) > Pos(UINT_MAX) THEN c + UINT_MOD ELSE c

\* updateAll is called again before the counter has gone round once since
\* the entries of the list began
InTime(its, nowMs) ==
  \A k \in 1..MAX_VALUE_ANIMATIONS :
    its[k].active => TimeOf(nowMs) - TimeOf(its[k].start) < UINT_MOD

\* the same gDisplay.animations.start(...) on both lists, when both are at
\* the same reading and neither has an entry
StartBoth(tg, f, t, d, e) ==
  LET l0 == List(items, vals, {})
      l1 == start(l0, tg, f, t, stamp, d, e)
      m1 == start(List(twin.items, twin.vals, {}), tg, f, t, stamp, d, e)
      item == [target |-> tg, from |-> f, to |-> t, start |-> stamp,
               duration |-> d, ease |-> e, active |-> TRUE]
  IN  /\ items = NoItems /\ twin.items = NoItems
      /\ stamp = twin.stamp
      /\ Put(l1)
      /\ twin' = [items |-> m1.items, vals |-> m1.vals, wrote |-> m1.wrote,
                  stamp |-> stamp]
      /\ ret' = ListCall("start", tg, item, l0, l1)
      /\ UNCHANGED <<fw, disp>>
      /\ UNCHANGED <<stamp, starts>>

\* updateAll(nowMs) on the second list
UpdateTwinAt(nowMs) ==
  LET m1 == updateItems(List(twin.items, twin.vals, {}), nowMs)
  IN  /\ twin' = [items |-> m1.items, vals |-> m1.vals, wrote |-> m1.wrote,
                  stamp |-> nowMs]
      /\ UNCHANGED <<fw, disp>>
      /\ UNCHANGED <<ret, items, vals, wrote, stamp, starts>>

NextPoll ==
  \/ \E tg \in PoolTargets, f \in Levels, t \in Levels, d \in Durations, e \in EaseFns :
       StartBoth(tg, f, t, d, e)
  \/ \E nowMs \in Later(stamp) : InTime(items, nowMs) /\ UpdateAt(nowMs)
  \/ \E nowMs \in Later(twin.stamp) : InTime(twin.items, nowMs) /\ UpdateTwinAt(nowMs)

SpecPoll == Init /\ [][NextPoll]_vars

-----------------------------------------------------------------------------
(* Properties.  `last` names the step that led to the state and `prev` is  *)
(* gState before it, so a property of a step reads as a state predicate.    *)

Max0(x) == IF x > 0 THEN x ELSE 0

\* A button press or a direct call just resumed a paused session
Resumed ==
  last \in {"press", "resumeRun"} /\ prev.mode = "PAUSED" /\ st.mode = "RUNNING"

\* C1: paused time is excluded from the countdown.  The elapsed time
\* computed right after a resume equals the elapsed time at the moment of
\* the pause, also when the counter wrapped during the pause; so, in a
\* session begun by startRunFromSelection, the remaining time is the
\* duration minus the time spent in RUNNING.
C1_PausedTimeExcluded ==
  /\ Resumed => computeElapsedMs(st, clock) = computeElapsedMs(prev, prev.pausedAtMs)
  /\ (ranMs >= 0 /\ st.mode = "RUNNING")
       => computeRemainingMs(st, clock) = Max0(st.runDurationMs - ranMs)
  /\ (ranMs >= 0 /\ st.mode = "PAUSED")
       => computeRemainingMs(st, st.pausedAtMs) = Max0(st.runDurationMs - ranMs)

\* A session that ran, was paused before the counter wrapped and resumed
\* after it
C1_ResumedAcrossWrap ==
  Resumed /\ ranMs > 0 /\ clock < prev.pausedAtMs

\* updateStateMachine just took the program from PAUSED to TIMEOUT
IdleTimedOut == last = "update" /\ prev.mode = "PAUSED" /\ st.mode = "TIMEOUT"

\* C2: the idle timer of PAUSED never fires early.  When updateStateMachine
\* leaves PAUSED for TIMEOUT, at least PAUSE_IDLE_DELAY_MS have passed since
\* pausedAtMs; in particular not in the pass of loop() in which the press
\* entered PAUSED.
C2_IdleNeverEarly ==
  IdleTimedOut => Sub32(clock, prev.pausedAtMs) >= PAUSE_IDLE_DELAY_MS

\* C3: with no press and no selection change, PAUSED ends in TIMEOUT at the
\* first pass of loop() whose `now` is PAUSE_IDLE_DELAY_MS or more past
\* pausedAtMs, and lasts until then.
C3_IdleFires ==
  (last = "update" /\ prev.mode = "PAUSED")
    => IF Sub32(now, prev.pausedAtMs) >= PAUSE_IDLE_DELAY_MS
       THEN st.mode = "TIMEOUT"
       ELSE st.mode = "PAUSED"

\* The idle timer fires at exactly PAUSE_IDLE_DELAY_MS
C3_IdleFiredOnTime ==
  IdleTimedOut /\ Sub32(now, prev.pausedAtMs) = PAUSE_IDLE_DELAY_MS

\* updateStateMachine just ran in SETTING with the zero-minute option
ZeroSelectionTick ==
  last = "update" /\ prev.mode = "SETTING" /\ currentMinutes(prev) = 0

C5_SelectionStartsSession ==
  (last = "update" /\ prev.mode = "SETTING" /\ st.mode = "RUNNING")
    => /\ currentMinutes(prev) # 0
       /\ Sub32(now, prev.stateTs) >= CENTER_DISPLAY_MS
       /\ st.runDurationMs = currentMinutes(prev) * 60 * 1000
       /\ st.runStartMs = st.stateTs
       /\ st.pausedAtMs = 0

\* C6: a pass of updateStateMachine in RUNNING ends in TIMEOUT when the
\* elapsed time has reached runDurationMs, and stays in RUNNING when it has
\* not.
C6_CountdownExpiry ==
  (last = "update" /\ prev.mode = "RUNNING")
    => IF computeElapsedMs(prev, now) >= prev.runDurationMs
       THEN st.mode = "TIMEOUT"
       ELSE st.mode = "RUNNING"

\* A session of non-zero duration expires at exactly runDurationMs
C6_ExpiredOnTime ==
  /\ last = "update" /\ prev.mode = "RUNNING" /\ st.mode = "TIMEOUT"
  /\ prev.runDurationMs > 0
  /\ computeElapsedMs(prev, now) = prev.runDurationMs

\* C7: a button press in RUNNING enters PAUSED with pausedAtMs the time of
\* the press, and a press in PAUSED enters RUNNING.
C7_ClickToggles ==
  /\ (last = "press" /\ prev.mode = "RUNNING")
       => (st.mode = "PAUSED" /\ st.pausedAtMs = clock)
  /\ (last = "press" /\ prev.mode = "PAUSED") => st.mode = "RUNNING"

\* A second press resumed what a first press had paused
C7_PressResumed ==
  /\ last = "press" /\ prev.mode = "PAUSED" /\ st.mode = "RUNNING"
  /\ presses = 2
  /\ prev.pausedAtMs < clock

\* C8: resumeRun called in a mode other than PAUSED changes nothing of the
\* state and draws nothing.
C8_ResumeOutsidePausedIsNoOp ==
  [][(last' = "resumeRun" /\ ops' = ops + 1 /\ st.mode # "PAUSED")
       => (st' = st /\ anim' = anim /\ ~drew')]_vars

\* resumeRun was called during a running session
C8_ResumeCalledWhileRunning ==
  last = "resumeRun" /\ prev.mode = "RUNNING" /\ st.mode = "RUNNING"

\* C9: pausing while already PAUSED, by enterPaused or by a button press,
\* leaves the mode PAUSED and pausedAtMs, runStartMs and runDurationMs as
\* they were.
C9_PauseIdempotent ==
  (last \in {"press", "enterPaused"} /\ prev.mode = "PAUSED")
    => /\ st.mode = "PAUSED"
       /\ st.pausedAtMs = prev.pausedAtMs
       /\ st.runStartMs = prev.runStartMs
       /\ st.runDurationMs = prev.runDurationMs

\* C10: a button press in SETTING enters PAUSED with a session of the
\* selected duration and no progress: runDurationMs is the selected minutes
\* in ms and the elapsed time at pausedAtMs is 0.
C10_PressInSettingPausesFreshSession ==
  (last = "press" /\ prev.mode = "SETTING")
    => /\ st.mode = "PAUSED"
       /\ st.runDurationMs = currentMinutes(st) * 60 * 1000
       /\ computeElapsedMs(st, st.pausedAtMs) = 0

\* C11: a button press during the blink of TIMEOUT takes the mode to
\* SETTING.
C11_PressInTimeoutEntersSetting ==
  (last = "press" /\ prev.mode = "TIMEOUT") => st.mode = "SETTING"

\* A poll of the blink just handled encoder steps
PolledInTimeout == last = "poll" /\ prev.mode = "TIMEOUT"

\* C12: an accepted selection change during the blink of TIMEOUT ends the
\* blink at once: the mode is SETTING with the new option, enterTimeout
\* returns to loop() without its remaining cycles and without goToSleep.
\* A change the throttle drops leaves the blink going.
C12_TurnAbortsBlink ==
  PolledInTimeout
    => IF throttleExpired(prev, clock)
       THEN st.mode = "SETTING" /\ pc = "loop"
            /\ st.optionIndex # prev.optionIndex
       ELSE st.mode = "TIMEOUT" /\ pc = "tmo" /\ st = prev

\* The blink was aborted in its first cycle
C12_AbortedInFirstCycle ==
  PolledInTimeout /\ st.mode = "SETTING" /\ pc = "loop" /\ tmoI = 0

\* What holds of the steps into and out of the sleep
SleepSteps ==
  /\ last = "sleep"
       => /\ prev.mode = "TIMEOUT" /\ st.mode = "SLEEPING"
          /\ tmoI + 1 = TIMEOUT_BLINK_COUNT /\ tmoPhase = 1
  /\ last = "wake"
       => /\ prev.mode = "SLEEPING" /\ st.mode = "SETTING"
          /\ st.optionIndex = prev.optionIndex

EnteredByTurn(s) ==
  s.mode = "SETTING" /\ s.lastEncoderMs # 0 /\ s.stateTs = s.lastEncoderMs

\* C14: a pass of handleEncoderInput that accepts a turn in SETTING, RUNNING
\* or PAUSED ends in SETTING with the neighbouring option selected, and when
\* updateStateMachine then takes that SETTING to RUNNING the countdown is
\* that of the new option: runDurationMs is its minutes in ms and
\* runStartMs is the time of entry.
C14_TurnRestartsTimer ==
  /\ (/\ last = "encoder"
      /\ prev.mode \in {"SETTING", "RUNNING", "PAUSED"}
      /\ st.optionIndex # prev.optionIndex)
       => /\ st.mode = "SETTING"
          /\ st.optionIndex \in {(prev.optionIndex + 1) % OPTION_COUNT,
                                 (prev.optionIndex + OPTION_COUNT - 1) % OPTION_COUNT}
  /\ (last = "update" /\ EnteredByTurn(prev) /\ st.mode = "RUNNING")
       => /\ st.runDurationMs = currentMinutes(st) * 60 * 1000
          /\ st.runStartMs = st.stateTs

\* C15: a pass of handleEncoderInput in RUNNING leaves the mode, the option
\* and the session (runStartMs, runDurationMs) as they were.
C15_TurnIgnoredWhileRunning ==
  (last = "encoder" /\ prev.mode = "RUNNING")
    => /\ st.mode = "RUNNING"
       /\ st.optionIndex = prev.optionIndex
       /\ st.runStartMs = prev.runStartMs
       /\ st.runDurationMs = prev.runDurationMs

\* C16: elapsedSince(since, now) is (now - since) modulo the size of the
\* counter, on both sides of the wrap, and both revisions of
\* computeElapsedMs return the same for since = runStartMs.
C16_ElapsedWrapSafe ==
  /\ ret.fn = "elapsedSince" => ret.val = (now - ret.since) % UINT_MOD
  /\ ret.fn \in {"computeElapsedMs", "computeElapsedMsSub"}
       => ret.val = (now - st.runStartMs) % UINT_MOD

\* elapsedSince was called with the counter wrapped since `since`
C16_ElapsedAcrossWrap ==
  ret.fn = "elapsedSince" /\ now < ret.since /\ ret.val = OPTIONS[1] * 60 * 1000

\* C17: computeRemainingMs is between 0 and runDurationMs; it is
\* runDurationMs - elapsed while elapsed < runDurationMs and 0 from then on,
\* and 0 when runDurationMs is 0.
C17_RemainingBounded ==
  ret.fn = "computeRemainingMs"
    => LET elapsed == (now - st.runStartMs) % UINT_MOD
       IN  /\ 0 <= ret.val /\ ret.val <= st.runDurationMs
           /\ elapsed < st.runDurationMs => ret.val = st.runDurationMs - elapsed
           /\ elapsed >= st.runDurationMs => ret.val = 0
           /\ st.runDurationMs = 0 => ret.val = 0

\* computeRemainingMs was called one millisecond after the countdown ended,
\* with the counter wrapped since the session began
C17_RemainingPastEnd ==
  /\ ret.fn = "computeRemainingMs"
  /\ st.runDurationMs > 0
  /\ now < st.runStartMs
  /\ Sub32(now, st.runStartMs) = st.runDurationMs + 1
  /\ ret.val = 0

\* the list as a value
Animations == List(items, vals, wrote)

\* some float has an active entry
SomeActive == \E k \in 1..MAX_VALUE_ANIMATIONS : items[k].active

\* the last call ended an entry: it wrote the entry's `to`, exactly that is
\* in the float, and the float has no entry any more
EntryEnded ==
  \E w \in wrote :
    /\ w.val = w.to
    /\ vals[w.target] = w.to
    /\ ~isActive(Animations, w.target)

\* C18: an active entry is brought to its end by repeated updateAll: its
\* float becomes exactly `to` and the entry is freed.
C18_UpdateConverges == SomeActive ~> EntryEnded

\* C19: every value that start or update writes to a float lies between
\* the entry's from and to, whatever the easing function and the timestamp.
C19_NoOvershoot ==
  \A w \in wrote :
    /\ w.val >= (IF w.from < w.to THEN w.from ELSE w.to)
    /\ w.val <= (IF w.from < w.to THEN w.to ELSE w.from)

\* an update wrote a value strictly inside a falling ease-in-out entry
C19_WroteInside ==
  \E k \in 1..MAX_VALUE_ANIMATIONS, w \in wrote :
    /\ items[k].active /\ items[k].ease = "easeInOut"
    /\ w.target = items[k].target
    /\ w.to < w.val /\ w.val < w.from

\* the items that hold an active entry for the float tg
EntriesOf(tg) == {k \in 1..MAX_VALUE_ANIMATIONS : matches(items[k], tg)}

\* C20: whatever calls were made on the list, no float has two active
\* entries; and a start for a float that had an active entry has cancelled
\* that entry and begun the new one in the same item.
C20_OneEntryPerTarget ==
  /\ \A tg \in Targets : Cardinality(EntriesOf(tg)) <= 1
  /\ (ret.fn \in {"start", "startTo"} /\ ret.found # 0)
       => /\ EntriesOf(ret.target) \subseteq {ret.found}
          /\ ret.val # 0 => (ret.val = ret.found /\ items[ret.found] = ret.item)
          /\ ret.val = 0 => ~isActive(Animations, ret.target)

\* start replaced the entry of a float in the second item while the first
\* item held the entry of the other float
C20_ReplacedInPlace ==
  /\ ret.fn = "start"
  /\ ret.found = 2
  /\ ret.val = 2
  /\ items[2] = ret.item
  /\ items[1].active
  /\ items[1].target # ret.target

\* an entry whose end the counter reaches before it wraps
EndsBeforeWrap ==
  \E k \in 1..MAX_VALUE_ANIMATIONS :
    /\ items[k].active
    /\ items[k].start >= stamp
    /\ items[k].start + items[k].duration <= UINT_MAX

C18_ConvergesBeforeWrap == EndsBeforeWrap ~> EntryEnded

ActiveItems == {k \in 1..MAX_VALUE_ANIMATIONS : items[k].active}

\* C21: the list never holds more than MAX_VALUE_ANIMATIONS active entries,
\* and start on a full list for a float that has no entry changes nothing:
\* no item, no float, and it returns nullptr.
C21_FullPoolStartIsNoOp ==
  /\ [](DOMAIN items = 1..MAX_VALUE_ANIMATIONS
        /\ Cardinality(ActiveItems) <= MAX_VALUE_ANIMATIONS)
  /\ [][(ret'.fn = "start" /\ Full(items) /\ find(Animations, ret'.target) = 0)
         => (items' = items /\ vals' = vals /\ wrote' = {} /\ ret'.val = 0)]_vars

\* start was refused for a seventh float while the list held six entries
C21_RefusedOnFullPool ==
  /\ ret.fn = "start"
  /\ ret.found = 0
  /\ ret.val = 0
  /\ Full(items)
  /\ \A k \in 1..MAX_VALUE_ANIMATIONS : items[k].target # ret.target
  /\ Cardinality({items[k].target : k \in 1..MAX_VALUE_ANIMATIONS}) = MAX_VALUE_ANIMATIONS

\* start was just refused because no item was free
Exhausted ==
  ret.fn = "start" /\ ret.found = 0 /\ ret.val = 0 /\ Full(items)

\* C22: a start that finds the list exhausted snaps the value: the float is
\* `to` when the call returns.
C22_ExhaustedStartSnaps ==
  Exhausted => vals[ret.target] = ret.item.to

\* the step is a start or startTo whose entry ends at once: duration 0 or
\* from equal to `to`
SnapStep ==
  /\ ret'.fn \in {"start", "startTo"}
  /\ ret'.item.duration = 0 \/ ret'.item.from = ret'.item.to

\* what such a step leaves: the float is `to` and has no entry, and the
\* items and floats of the other targets are as they were
Snapped ==
  /\ vals'[ret'.target] = ret'.item.to
  /\ ~isActive(List(items', vals', wrote'), ret'.target)
  /\ \A k \in 1..MAX_VALUE_ANIMATIONS :
       items[k].target # ret'.target => items'[k] = items[k]
  /\ \A tg \in Floats \ {ret'.target} : vals'[tg] = vals[tg]

C24_PollingIndependent ==
  stamp = twin.stamp => (vals = twin.vals /\ items = twin.items)

\* the wrap of the counter is still ahead of both lists
BeforeWrap == Pos(stamp) <= Pos(UINT_MAX) /\ Pos(twin.stamp) <= Pos(UINT_MAX)

C24_PollingIndependentBeforeWrap == BeforeWrap => C24_PollingIndependent

-----------------------------------------------------------------------------
(* SpecWedge: the wedge of the dial, drawn for one value of the remaining  *)
(* seconds after another, by drawRemainingWedge on the cache or by a       *)
(* forced renderAll in SETTING.                                            *)

Shown == Display(dial, ring, probe)

Show(D) == dial' = D.dial /\ ring' = D.ring /\ probe' = D.probe

HOUR_SEC == 60 * 60

SettingView(sec) ==
  [mode |-> "SETTING", remainingSec |-> sec, totalSec |-> HOUR_SEC,
   early |-> TRUE, on |-> FALSE]

DrawRemainingWedge(sec) ==
  LET D0 == [Shown EXCEPT !.probe = [NoProbe EXCEPT !.fn = "drawRemainingWedge",
                                                    !.sec = sec,
                                                    !.total = HOUR_SEC]]
  IN  /\ Show(drawRemainingWedge(D0, sec, HOUR_SEC, FALSE, "COL_BG"))
      /\ UNCHANGED fw
      /\ UNCHANGED <<ret, items, vals, wrote, stamp, starts, twin>>

FullRepaint(sec) ==
  /\ Show(renderAllOn(Shown, SettingView(sec), TRUE))
  /\ UNCHANGED fw
  /\ UNCHANGED <<ret, items, vals, wrote, stamp, starts, twin>>

NextWedge ==
  \/ \E sec \in Secs : DrawRemainingWedge(sec)
  \/ \E sec \in Secs : FullRepaint(sec)

SpecWedge == Init /\ [][NextWedge]_vars

\* the screen of one forced full repaint at the seconds `sec`
Repainted(sec) ==
  renderAllOn(Display(NewDial, [m \in Marks |-> "COL_BG"], NoProbe),
              SettingView(sec), TRUE).ring

\* C25: after any sequence of values applied through drawRemainingWedge, the
\* screen shows what one forced full repaint at the last value would show
C25_IncrementalEqualsFullRepaint ==
  probe.fn = "drawRemainingWedge" => ring = Repainted(probe.sec)

-----------------------------------------------------------------------------
(* SpecRender: renderAll called for one view of the state after another,   *)
(* forced or not, as enterSetting, startRunFromSelection, enterPaused,     *)
(* resumeRun, enterTimeout and updateStateMachine call it.                 *)

RenderSecs == {900, 1800}

\* a session of an hour, or no session (runDurationMs == 0, nothing
\* remaining) outside SETTING
Views ==
  [mode : {"SETTING", "RUNNING", "PAUSED", "TIMEOUT"}, remainingSec : RenderSecs \cup {0},
   totalSec : {0, HOUR_SEC}, early : BOOLEAN, on : BOOLEAN]

RenderAll(view, forceBg) ==
  /\ view.mode = "SETTING" => view.totalSec > 0 /\ view.early /\ ~view.on
  /\ view.mode = "TIMEOUT" => view.totalSec = 0 /\ view.early /\ ~view.on /\ forceBg
  /\ view.mode = "RUNNING" => ~view.on
  /\ view.totalSec = 0 <=> view.remainingSec = 0
  /\ Show(renderAllOn(Shown, view, forceBg))
  /\ UNCHANGED fw
  /\ UNCHANGED <<ret, items, vals, wrote, stamp, starts, twin>>

NextRender == \E view \in Views, forceBg \in BOOLEAN : RenderAll(view, forceBg)

SpecRender == Init /\ [][NextRender]_vars

\* a forced renderAll finds every validity flag false when it clears the
\* screen, the first thing it draws
ForcedStartsInvalid ==
  (probe.fn = "renderAll" /\ probe.forced) => probe.seen = <<FALSE, FALSE, FALSE>>

\* C26: a forced repaint clears wedgeValid, pointerValid and blinkVisible
\* before anything is drawn, and no draw decision of a render call reads a
\* cache field whose validity flag is false
C26_CacheReadOnlyWhenValid ==
  /\ ForcedStartsInvalid
  /\ probe.fn = "renderAll" => probe.stale = {}

-----------------------------------------------------------------------------
(* SpecTurn: the loop with passes that follow one another within the       *)
(* throttle window, and a sleep that ends one window before the counter    *)
(* wraps.                                                                  *)

ShortTicks == {1, ENCODER_THROTTLE_MS - 1}

WrapClocks == {UINT_MOD - ENCODER_THROTTLE_MS}

NextTurn ==
  \/ Next
  \/ \E d \in ShortTicks : SampleNow(d)
  \/ \E c \in WrapClocks : Wake(c)

SpecTurn == Init /\ [][NextTurn]_vars

\* the handler ran less than ENCODER_THROTTLE_MS after the selection change
\* accepted before it
InsideWindow ==
  /\ last \in {"encoder", "poll"}
  /\ IF st.optionIndex # prev.optionIndex THEN accepted.early
     ELSE accepted.any /\ Sub32(clock, st.lastEncoderMs) < ENCODER_THROTTLE_MS

\* C27: two accepted selection changes are at least ENCODER_THROTTLE_MS
\* apart, and a call of the handler inside the window changes neither
\* optionIndex nor the mode
C27_OneChangePerWindow ==
  /\ ~accepted.early
  /\ InsideWindow => (st.optionIndex = prev.optionIndex /\ st.mode = prev.mode)

\* what does hold: a selection change accepted while lastEncoderMs is not 0
\* comes at least ENCODER_THROTTLE_MS after the one before
C27_OneChangePerWindowUnlessAtZero ==
  [][(st.lastEncoderMs # 0 /\ st'.optionIndex # st.optionIndex)
      => ~accepted'.early]_vars

-----------------------------------------------------------------------------
(* The selection *)

\* the option after one accepted event clockwise and one counter-clockwise,
\* of `k` coalesced steps each, a throttle window apart
ThereAndBack(k) ==
  LET t1 == Add32(st.lastEncoderMs, ENCODER_THROTTLE_MS)
      t2 == Add32(t1, ENCODER_THROTTLE_MS)
      w1 == handleEncoderInput(Cur, k, t1)
      w2 == handleEncoderInput(w1, 0 - k, t2)
  IN  IF w1.st.optionIndex = st.optionIndex THEN OPTION_COUNT ELSE w2.st.optionIndex

\* C28: an accepted selection event moves optionIndex by one position,
\* forward for clockwise steps and back for counter-clockwise ones, however
\* many steps were coalesced; optionIndex stays within 0..OPTION_COUNT-1,
\* the minutes go round 15, 30, 60, 0, and one event forward followed by one
\* event back restores the selection
C28_OneOptionPerEvent ==
  /\ [](st.optionIndex \in 0..(OPTION_COUNT - 1))
  /\ [](currentMinutes(st) = <<15, 30, 60, 0>>[st.optionIndex + 1])
  /\ [](\A k \in 1..MaxEvents : ThereAndBack(k) = st.optionIndex)
  /\ [][st'.optionIndex # st.optionIndex =>
          \/ steps > 0 /\ st'.optionIndex = (st.optionIndex + 1) % OPTION_COUNT
          \/ steps < 0 /\ st'.optionIndex = (st.optionIndex + OPTION_COUNT - 1) % OPTION_COUNT]_vars

\* two detents clockwise were coalesced into one accepted event, which moved
\* the selection from 15 to 30 minutes
C28_TwoStepsOneOption ==
  /\ last = "encoder" /\ turns = 2 /\ loops = 1
  /\ prev.optionIndex = 0 /\ st.optionIndex = 1 /\ currentMinutes(st) = 30

\* the fraction of the 60-minute scale that the spec gives a selection
DialFraction(minutes) ==
  IF minutes = 0 THEN FRAC_ONE ELSE (minutes * FRAC_ONE) \div 60

\* C29: on entering SETTING the dial-fraction target is the selected minutes
\* as a fraction of 60 minutes (15 a quarter, 30 a half, 60 the whole), and
\* the whole for a selection of 0 minutes
C29_TargetIsFractionOfHour ==
  st.mode = "SETTING" => st.settingFracTarget = DialFraction(currentMinutes(st))

\* the same for the selections other than 0 minutes
C29_TargetIsFractionOfHourUnlessZero ==
  (st.mode = "SETTING" /\ currentMinutes(st) # 0)
    => st.settingFracTarget = DialFraction(currentMinutes(st))

-----------------------------------------------------------------------------
(* SpecIdle: the loop goes on for ever.  The passes come far more often   *)
(* than the delays of the state machine end, so once MaxLoops passes have  *)
(* been explored the pass looked at is the one that reads the counter      *)
(* value at which the delay of the mode ends.  Presses, detents and failed *)
(* sleeps are over after MaxEvents of them; the light sleep may also end   *)
(* one center-display window before the counter's largest value.           *)

\* The first counter value that ends the delay of the mode: the one after
\* the center-display window in SETTING, the end of the session in RUNNING,
\* the idle delay after the pause in PAUSED
Deadline(s) ==
  CASE s.mode = "SETTING" -> Add32(s.centerDisplayUntilMs, 1)
    [] s.mode = "RUNNING" -> Add32(s.runStartMs, s.runDurationMs)
    [] s.mode = "PAUSED" -> Add32(s.pausedAtMs, PAUSE_IDLE_DELAY_MS)
    [] OTHER -> clock

WindowClocks == {UINT_MAX - CENTER_DISPLAY_MS}

\* loop(): uint32_t now = millis(); in a pass after the first MaxLoops
KeepLooping(c) ==
  /\ pc = "loop"
  /\ loops = MaxLoops
  /\ Step("now", Cur, c)
  /\ now' = clock'
  /\ pc' = "enc"
  /\ UNCHANGED <<steps, tmoI, tmoPhase, tmoStart, calls, ops, faults, loops, presses,
                 turns, drift>>
  /\ UNCHANGED lab

\* The steps the main thread takes by itself
MainThread ==
  \/ \E d \in TickAdvance : SampleNow(d)
  \/ KeepLooping(Deadline(st))
  \/ HandleEncoderInput(0)
  \/ HandleButtonInput(FALSE, 0)
  \/ UpdateStateMachine
  \/ TimeoutPoll
  \/ TimeoutElapse
  \/ GoToSleep

NextIdle ==
  \/ NextLive
  \/ KeepLooping(Deadline(st))
  \/ \E c \in WindowClocks : Wake(c)

SpecIdle == Init /\ [][NextIdle]_vars /\ WF_vars(MainThread)

Awake == st.mode \in {"SETTING", "RUNNING", "PAUSED", "TIMEOUT"}

WindowAtMax ==
  st.mode = "SETTING" /\ ~st.pendingTimeout /\ st.centerDisplayUntilMs = UINT_MAX

\* what does hold: from every awake mode the device reaches SLEEPING, or
\* SETTING with the window ending at the largest counter value
C30_IdleReachesSleepOrWindowAtMax == Awake ~> (st.mode = "SLEEPING" \/ WindowAtMax)

-----------------------------------------------------------------------------
(* The elapsed time of an interpolation across the wrap of the counter     *)

\* C31: update measures the time since the entry's start modulo the size
\* of the counter: an updateAll at a reading of the counter leaves no entry
\* active whose duration has passed since its start, on either side of the
\* wrap.
C31_TweenElapsedWrapSafe ==
  [][stamp' # stamp
       => \A k \in 1..MAX_VALUE_ANIMATIONS :
            items'[k].active
              => Sub32(stamp', items'[k].start) < items'[k].duration]_vars

\* what does hold: the same for the readings that are not below the
\* entry's start
C31_TweenElapsedSafeBeforeWrap ==
  [][stamp' # stamp
       => \A k \in 1..MAX_VALUE_ANIMATIONS :
            (items'[k].active /\ stamp' >= items'[k].start)
              => stamp' - items'[k].start < items'[k].duration]_vars

-----------------------------------------------------------------------------
(* The center-display window of SETTING across the wrap of the counter     *)

\* the reading nw of the counter is past the deadline, less than half a
\* round of the counter ago
Past(nw, deadline) ==
  LET diff == Sub32(nw, deadline)
  IN  0 < diff /\ diff < UINT_MOD \div 2

\* updateStateMachine has just run in SETTING with a window armed
WindowTested == last = "update" /\ prev.mode = "SETTING" /\ ~prev.pendingTimeout

\* C32: the pass of updateStateMachine that finds SETTING with its window
\* armed leaves SETTING if the reading of the counter is past
\* centerDisplayUntilMs, that is more than CENTER_DISPLAY_MS after the
\* arming, and stays in SETTING if it is not, also when the deadline or the
\* counter has wrapped in between.
C32_WindowWrapSafe ==
  WindowTested => (st.mode # "SETTING" <=> Past(now, prev.centerDisplayUntilMs))

\* what does hold: the same while neither the deadline nor the counter has
\* wrapped since the arming
C32_WindowSafeBeforeWrap ==
  (/\ WindowTested
   /\ prev.centerDisplayUntilMs >= CENTER_DISPLAY_MS
   /\ now + UINT_MOD \div 2 > prev.centerDisplayUntilMs)
    => (st.mode # "SETTING" <=> Past(now, prev.centerDisplayUntilMs))

-----------------------------------------------------------------------------
(* The fields of the session in each mode                                  *)

\* C33: in RUNNING the session has a duration: runDurationMs > 0 in every
\* reachable state whose mode is RUNNING.
C33_RunningHasDuration == st.mode = "RUNNING" => st.runDurationMs > 0

\* what does hold: RUNNING entered by startRunFromSelection has the
\* duration of the selected option, which is not 0
C33_StartedRunHasDuration ==
  (last = "startRunFromSelection" /\ st.mode = "RUNNING")
    => (st.runDurationMs = currentMinutes(st) * 60 * 1000 /\ st.runDurationMs > 0)

\* C34: pausedAtMs is 0 exactly when the mode is not PAUSED, in every
\* reachable state.
C34_PausedAtIffPaused == (st.pausedAtMs # 0) <=> (st.mode = "PAUSED")

\* what does hold: the press that pauses stamps pausedAtMs with the
\* reading of the counter, and the press that resumes clears it
C34_PausedAtSetAndCleared ==
  /\ (last = "press" /\ prev.mode \in {"SETTING", "RUNNING"})
       => (st.mode = "PAUSED" /\ st.pausedAtMs = clock)
  /\ (last = "press" /\ prev.mode = "PAUSED")
       => (st.mode = "RUNNING" /\ st.pausedAtMs = 0)

-----------------------------------------------------------------------------
(* SpecTint: drawRemainingWedge called for one value of the remaining      *)
(* seconds after another, in the tint of RUNNING or of PAUSED, between     *)
(* forced repaints of SETTING and of TIMEOUT (which leaves the screen      *)
(* blank and the cache reset).                                             *)

TimeoutView ==
  [mode |-> "TIMEOUT", remainingSec |-> 0, totalSec |-> 0, early |-> TRUE, on |-> FALSE]

\* enterTimeout's renderAll(st, true)
Blank ==
  /\ Show(renderAllOn(Shown, TimeoutView, TRUE))
  /\ UNCHANGED fw
  /\ UNCHANGED <<ret, items, vals, wrote, stamp, starts, twin>>

\* drawRemainingWedge(sec, 3600, paused, bgColor) as renderAll calls it
DrawTintedWedge(sec, paused) ==
  LET bg == backgroundColorForMode(IF paused THEN "PAUSED" ELSE "RUNNING")
      D0 == [Shown EXCEPT !.probe = [NoProbe EXCEPT !.fn = "drawRemainingWedge",
                                                    !.sec = sec,
                                                    !.total = HOUR_SEC,
                                                    !.paused = paused,
                                                    !.bg = bg]]
  IN  /\ Show(drawRemainingWedge(D0, sec, HOUR_SEC, paused, bg))
      /\ UNCHANGED fw
      /\ UNCHANGED <<ret, items, vals, wrote, stamp, starts, twin>>

NextTint ==
  \/ \E sec \in Secs, paused \in BOOLEAN : DrawTintedWedge(sec, paused)
  \/ \E sec \in Secs : FullRepaint(sec)
  \/ Blank

SpecTint == Init /\ [][NextTint]_vars

\* the end angle and the colour of the wedge the last call was asked for
EndOf(p) == turnOf(hourScaledFraction(p.sec))

TintOf(p) == IF p.paused THEN "COL_LIGHTRED" ELSE "COL_RED"

\* the ring cleared to bg with the wedge [0, newEnd] in color
FullWedge(newEnd, color, bg) ==
  [m \in Marks |-> IF newEnd > ANGLE_EPS /\ m < newEnd THEN color ELSE bg]

\* the ring r with the band [a, b] painted in color
Band(r, a, b, color) ==
  [m \in Marks |-> IF a <= m /\ m < b THEN color ELSE r[m]]

\* C35: a call of drawRemainingWedge that finds the cache invalid or the
\* cached colour different from the colour asked for leaves the ring
\* cleared to the background with the full wedge [0, newEnd] in the new
\* colour, and the cache valid with the new end angle and the new colour.
C35_TintChangeRepaintsAll ==
  [][(/\ probe'.fn = "drawRemainingWedge"
      /\ ~dial.wedgeValid \/ dial.wedgeColor # TintOf(probe'))
       => /\ ring' = FullWedge(EndOf(probe'), TintOf(probe'), probe'.bg)
          /\ dial'.wedgeValid
          /\ dial'.wedgeEndDeg = EndOf(probe')
          /\ dial'.wedgeColor = TintOf(probe')]_vars

\* what does hold: the same for a call that finds the ring all in the
\* background colour it is given, as fillScreen leaves it
C35_FullWedgeOnClearedScreen ==
  [][(/\ probe'.fn = "drawRemainingWedge"
      /\ ~dial.wedgeValid \/ dial.wedgeColor # TintOf(probe')
      /\ \A m \in Marks : ring[m] = probe'.bg)
       => /\ ring' = FullWedge(EndOf(probe'), TintOf(probe'), probe'.bg)
          /\ dial'.wedgeValid
          /\ dial'.wedgeEndDeg = EndOf(probe')
          /\ dial'.wedgeColor = TintOf(probe')]_vars

\* C36: a call of drawRemainingWedge that finds the cache valid and the
\* colour unchanged paints the band between the new and the cached end
\* angle, in the background colour when the wedge shrinks and in the wedge
\* colour when it grows, paints nothing else, and caches the new end angle.
C36_OnlyChangedBand ==
  [][(/\ probe'.fn = "drawRemainingWedge"
      /\ dial.wedgeValid /\ dial.wedgeColor = TintOf(probe'))
       => /\ ring' = IF EndOf(probe') < dial.wedgeEndDeg
                     THEN Band(ring, EndOf(probe'), dial.wedgeEndDeg, probe'.bg)
                     ELSE Band(ring, dial.wedgeEndDeg, EndOf(probe'), TintOf(probe'))
          /\ dial'.wedgeEndDeg = EndOf(probe')]_vars

\* what does hold: the same for the calls that move the end by more than
\* ANGLE_EPS, and for the others the ring is left as it was
C36_OnlyChangedBandAboveEps ==
  [][(/\ probe'.fn = "drawRemainingWedge"
      /\ dial.wedgeValid /\ dial.wedgeColor = TintOf(probe'))
       => /\ ring' = IF fabs(EndOf(probe') - dial.wedgeEndDeg) <= ANGLE_EPS THEN ring
                     ELSE IF EndOf(probe') < dial.wedgeEndDeg
                     THEN Band(ring, EndOf(probe'), dial.wedgeEndDeg, probe'.bg)
                     ELSE Band(ring, dial.wedgeEndDeg, EndOf(probe'), TintOf(probe'))
          /\ dial'.wedgeEndDeg = EndOf(probe')]_vars

-----------------------------------------------------------------------------
(* The hand of the dial                                                    *)

\* drawMinuteHand erased the previous hand in the last call of renderAll
HandErased == probe.fn = "renderAll" /\ probe.hand # <<>>

\* C37: drawMinuteHand erases the previous hand in the colour its place
\* belongs to: the background of the call when the hand's previous angle
\* lies beyond the current wedge end, the wedge colour when it lies within
\* the wedge.
C37_HandErasedInPlaceColour ==
  HandErased
    => probe.hand.painted = IF probe.hand.angle > probe.hand.wedgeEnd
                            THEN probe.bg
                            ELSE probe.hand.wedgeColor

\* what does hold: the same in the calls that draw the wedge and the hand
\* for the same value on a valid cache, as every renderAll in SETTING does
C37_HandErasedWithWedge ==
  (HandErased /\ dial.wedgeValid /\ probe.hand.angle = dial.prevWedgeEndDeg)
    => probe.hand.painted = IF probe.hand.angle > probe.hand.wedgeEnd
                            THEN probe.bg
                            ELSE probe.hand.wedgeColor

-----------------------------------------------------------------------------
(* SpecZero: renderAll for one view after another, and the three draw      *)
(* functions of the dial called with a total of zero seconds.              *)

ZeroProbe(fn, sec) == [NoProbe EXCEPT !.fn = fn, !.sec = sec]

\* drawRemainingWedge(sec, 0.0f, paused, bgColor)
DrawWedgeOnZero(sec, paused) ==
  LET bg == backgroundColorForMode(IF paused THEN "PAUSED" ELSE "RUNNING")
      D0 == [Shown EXCEPT !.probe = [ZeroProbe("drawRemainingWedge", sec)
                                       EXCEPT !.paused = paused, !.bg = bg]]
  IN  /\ Show(drawRemainingWedge(D0, sec, 0, paused, bg))
      /\ UNCHANGED fw
      /\ UNCHANGED <<ret, items, vals, wrote, stamp, starts, twin>>

\* drawMinuteHand(sec, 0.0f, bgColor, pointerColor, hubColor)
DrawHandOnZero(sec) ==
  LET D0 == [Shown EXCEPT !.probe = ZeroProbe("drawMinuteHand", sec)]
  IN  /\ Show(drawMinuteHand(D0, sec, 0, "COL_BG"))
      /\ UNCHANGED fw
      /\ UNCHANGED <<ret, items, vals, wrote, stamp, starts, twin>>

\* drawBlinkingTip(sec, 0.0f, on, bgColor)
DrawTipOnZero(sec, on) ==
  LET D0 == [Shown EXCEPT !.probe = ZeroProbe("drawBlinkingTip", sec)]
  IN  /\ Show(drawBlinkingTip(D0, sec, 0, on, "COL_BG"))
      /\ UNCHANGED fw
      /\ UNCHANGED <<ret, items, vals, wrote, stamp, starts, twin>>

NextZero ==
  \/ \E view \in Views, forceBg \in BOOLEAN : RenderAll(view, forceBg)
  \/ \E sec \in RenderSecs \cup {0}, paused \in BOOLEAN : DrawWedgeOnZero(sec, paused)
  \/ \E sec \in RenderSecs \cup {0} : DrawHandOnZero(sec)
  \/ \E sec \in RenderSecs \cup {0}, on \in BOOLEAN : DrawTipOnZero(sec, on)

SpecZero == Init /\ [][NextZero]_vars

\* the step is a call with a total of zero seconds: of renderAll in a mode
\* that has a session, or of one of the draw functions
ZeroRender == probe'.fn = "renderAll" /\ probe'.total = 0

ZeroDraw(fn) == probe'.fn = fn /\ probe'.total = 0

\* what a renderAll that draws nothing of the dial leaves: the screen and
\* the cache as they were, or cleared and reset when it is forced
NothingOfDial ==
  IF probe'.forced
  THEN ring' = [m \in Marks |-> probe'.bg] /\ dial' = NewDial
  ELSE ring' = ring /\ dial' = dial

\* C38 as stated: with a total of zero, renderAll draws no wedge, no hand
\* and no tip, and drawRemainingWedge, drawMinuteHand and drawBlinkingTip
\* return without drawing and without changing the cache.
C38_ZeroTotalDrawsNothing ==
  [][/\ ZeroRender => (NothingOfDial /\ probe'.hand = <<>> /\ probe'.tip = "none")
     /\ (ZeroDraw("drawRemainingWedge") \/ ZeroDraw("drawMinuteHand")
           \/ ZeroDraw("drawBlinkingTip"))
          => (ring' = ring /\ dial' = dial /\ probe'.tip = "none")]_vars

\* C38: with a total of zero, renderAll draws no wedge, no hand and no tip,
\* drawRemainingWedge and drawMinuteHand return without drawing and without
\* changing the cache, and drawBlinkingTip draws no tip and moves none: it
\* erases the tip that is visible, clears blinkVisible and leaves the rest
\* of the cache and the ring as they were.
C38_ZeroTotalDrawsNoDial ==
  [][/\ ZeroRender => (NothingOfDial /\ probe'.hand = <<>> /\ probe'.tip = "none")
     /\ (ZeroDraw("drawRemainingWedge") \/ ZeroDraw("drawMinuteHand"))
          => (ring' = ring /\ dial' = dial)
     /\ ZeroDraw("drawBlinkingTip")
          => /\ ring' = ring
             /\ dial' = [dial EXCEPT !.blinkVisible = FALSE]
             /\ probe'.tip = IF dial.blinkVisible THEN "erased" ELSE "none"]_vars

\* drawBlinkingTip was called with a total of zero while a tip was visible
\* beside a wedge and a hand, and erased it
C38_TipErasedOnZero ==
  /\ probe.fn = "drawBlinkingTip" /\ probe.total = 0
  /\ probe.tip = "erased"
  /\ ~dial.blinkVisible /\ dial.wedgeValid /\ dial.pointerValid

-----------------------------------------------------------------------------
(* SpecDrain: handleEncoderInput line by line, with the interrupt of the   *)
(* encoder at every point of loop() at which interrupts are enabled.  The  *)
(* call in progress is kept in ret: the local variable `steps` (snap), and *)
(* as history the detents onEncChange has completed (made) and the sum of  *)
(* the snapshots taken (taken).                                            *)

NoDrain == [fn |-> "handleEncoderInput", snap |-> 0, made |-> 0, taken |-> 0]

Drain == IF ret.fn = "handleEncoderInput" THEN ret ELSE NoDrain

\* Interrupts that are not masked during the drain
InterruptsNeverMasked == TRUE

\* between noInterrupts() and interrupts() the interrupt is not served
InterruptsEnabled == pc \notin {"masked", "read", "cleared"}

\* onEncChange completing a detent in direction dir, between any two steps
\* of a pass of loop()
Detent(dir) ==
  /\ pc \in {"loop", "enc", "btn", "usm", "masked", "read", "cleared"}
  /\ InterruptsEnabled
  /\ events < MaxEvents
  /\ steps' = steps + dir
  /\ turns' = turns + 1
  /\ ret' = [Drain EXCEPT !.made = @ + dir]
  /\ UNCHANGED <<st, anim, clock, now, pc, tmoI, tmoPhase, tmoStart, drew,
                 last, prev, ranMs, accepted, calls, ops, faults, loops, presses,
                 drift>>
  /\ UNCHANGED <<items, vals, wrote, stamp, starts, twin>>
  /\ UNCHANGED disp

\* a line of handleEncoderInput that leaves the state of the program alone
DrainLine(from, to) ==
  /\ pc = from
  /\ pc' = to
  /\ UNCHANGED <<st, anim, clock, now, tmoI, tmoPhase, tmoStart, drew,
                 last, prev, ranMs, accepted, calls, ops, faults, loops, presses,
                 turns, drift>>
  /\ UNCHANGED <<items, vals, wrote, stamp, starts, twin>>
  /\ UNCHANGED disp

\* noInterrupts();
Mask == DrainLine("enc", "masked") /\ UNCHANGED <<steps, ret>>

\* steps = gEncoder.steps;
ReadSteps ==
  /\ DrainLine("masked", "read")
  /\ ret' = [Drain EXCEPT !.snap = steps, !.taken = @ + steps]
  /\ UNCHANGED steps

\* gEncoder.steps = 0;
ClearSteps ==
  /\ DrainLine("read", "cleared")
  /\ steps' = 0
  /\ ret' = Drain

\* interrupts(); and the rest of handleEncoderInput on the snapshot
Unmask ==
  /\ pc = "cleared"
  /\ Step("encoder", handleEncoderInput(Cur, Drain.snap, clock), clock)
  /\ pc' = "btn"
  /\ ret' = [Drain EXCEPT !.snap = 0]
  /\ UNCHANGED <<steps, now, tmoI, tmoPhase, tmoStart, calls, ops, faults, loops,
                 presses, turns, drift>>
  /\ UNCHANGED <<items, vals, wrote, stamp, starts, twin>>
  /\ UNCHANGED disp

NextDrain ==
  \/ \E dir \in {-1, 1} : Detent(dir)
  \/ \E d \in TickAdvance : SampleNow(d)
  \/ Mask
  \/ ReadSteps
  \/ ClearSteps
  \/ Unmask
  \/ \E fell \in BOOLEAN : HandleButtonInput(fell, 0)
  \/ UpdateStateMachine
  \/ TimeoutElapse
  \/ GoToSleep
  \/ \E c \in WakeClocks : Wake(c)
  \/ SleepFails

SpecDrain == Init /\ [][NextDrain]_vars

\* C39: every detent onEncChange has completed is in exactly one place: in
\* one snapshot taken by handleEncoderInput, or still in gEncoder.steps for
\* the next snapshot.  The detents completed equal the snapshots taken
\* plus the counter (between the read and the clear the counter is the
\* snapshot just taken), at every point of every interleaving.
C39_DrainIsAtomic ==
  /\ Drain.made = Drain.taken + (IF pc = "read" THEN 0 ELSE steps)
  /\ pc = "read" => steps = Drain.snap
  /\ pc = "cleared" => steps = 0

\* a snapshot has taken one detent, and a detent completed after the drain
\* waits in the counter for the next pass
C39_DetentAfterDrainKept ==
  /\ Drain.taken = 1 /\ Drain.made = 2 /\ steps = 1
  /\ last = "encoder" /\ st.optionIndex = 1

-----------------------------------------------------------------------------
(* The floats the firmware animates: start, remove and updateAll of the    *)
(* list for blinkLevel, settingFracCurrent and centerFadeLevel only.       *)

\* the starts of one behaviour
MaxUses == 4

\* gDisplay.animations.start(&float, from, to, nowMs, duration, easeOut) for
\* one of the floats of the firmware
UseStart(tg, f, t, d) ==
  LET l0 == List(items, vals, {})
      l1 == start(l0, tg, f, t, stamp, d, "easeOut")
      item == [target |-> tg, from |-> f, to |-> t, start |-> stamp,
               duration |-> d, ease |-> "easeOut", active |-> TRUE]
  IN  /\ stamp \in AnimStarts
      /\ starts < MaxUses
      /\ Put(l1)
      /\ ret' = ListCall("start", tg, item, l0, l1)
      /\ starts' = starts + 1
      /\ UNCHANGED <<fw, disp>>
      /\ UNCHANGED <<stamp, twin>>

\* the white flash of pause and its way back, and a start that has no way to
\* go
UseLevels == {<<LEVEL_ONE, 0>>, <<0, LEVEL_ONE>>, <<LEVEL_ONE, LEVEL_ONE>>}

NextUse ==
  \/ \E tg \in Targets, p \in UseLevels, d \in PoolDurations :
       UseStart(tg, p[1], p[2], d)
  \/ \E tg \in Targets : Remove(tg)
  \/ UpdateAll(PoolStamps)

SpecUse == Init /\ [][NextUse]_vars

\* C40: the list is never exhausted in the firmware: at most one entry for
\* each of the three floats is active, which is below MAX_VALUE_ANIMATIONS,
\* and no start is refused because no item is free.
C40_PoolNeverExhausted ==
  /\ Cardinality(ActiveItems) <= Cardinality(Targets)
  /\ Cardinality(Targets) = 3
  /\ Cardinality(Targets) < MAX_VALUE_ANIMATIONS
  /\ ~Full(items)
  /\ ~Exhausted
  /\ (ret.fn = "start" /\ ret.val = 0) =>
       (ret.item.duration = 0 \/ ret.item.from = ret.item.to)

\* the three floats are animated at once, and the last start was for a float
\* that had an entry
C40_AllFloatsAnimated ==
  /\ Cardinality(ActiveItems) = 3
  /\ {items[k].target : k \in ActiveItems} = Targets
  /\ ret.fn = "start" /\ ret.found # 0 /\ ret.val = ret.found

=============================================================================
